---- MODULE Spec2Model ----
(***************************************************************************)
(* Keystroke-to-HID translation: the log replayer (keyemulator.py), its   *)
(* dead-key predecessor (keyemulatorold.py), the live AZERTY processor     *)
(* (maninthemiddle.py) and the evtest keyboard logger (azerty.py),         *)
(* modelled as state machines over the HID device, the log file and the    *)
(* modifier flags.                                                         *)
(*                                                                         *)
(* A character is a string of length 1, as returned by fd.read(1); a token *)
(* is a string built by concatenation, as in token += c2.                  *)
(***************************************************************************)
EXTENDS Integers, Sequences, FiniteSets, TLC

VARIABLES
    log,        \* keyemulator: the characters of the log file, in file order
    pos,        \* keyemulator: read offset of logf in the log file
    pending,    \* characters the writer of the log has still to append
    token,      \* follow_tokens: the local `token` inside a bracketed token
    tokens,     \* follow_tokens: every token yielded so far, in order
    tok,        \* main: the loop variable `tok` being processed
    start,      \* keyemulator: the offset fd.seek(0, 2) left logf at
    pc,         \* keyemulator: control point of main / follow_tokens / send_key
    taps,       \* send_key: the (mod, usage) arguments of every call so far
    hid,        \* the HID device: every report written to it, in order
    arg,        \* report builders: the (modifier, usage) arguments of a call
    ret,        \* report builders: <<function called, report returned>>
    modifiers,  \* maninthemiddle: self.modifiers
    hid_fd,     \* maninthemiddle: self.hid_fd, "open" or "none"
    held,       \* the physical keys that are down
    caps_on,    \* whether CapsLock is on at the keyboard
    kev,        \* maninthemiddle: the last event on_key_event was called with
    res,        \* on_key_event: <<scancode, hid_modifiers_byte>> resolved for kev
    presses,    \* every press report handed to send_hid_report, in order
    write_failed,   \* maninthemiddle: whether an os.write to the device has failed
    nevents,    \* the number of key events delivered so far
    shift_pressed,      \* azerty: self.shift_pressed
    left_alt_pressed,   \* azerty: self.left_alt_pressed
    right_alt_pressed,  \* azerty: self.right_alt_pressed
    caps_lock,          \* azerty: self.caps_lock
    num_lock,           \* azerty: self.num_lock
    ev,         \* azerty: the last event handled, <<key, value>>
    out,        \* azerty: what handling ev wrote to the log file, "" if nothing
    downs,      \* the number of Down events delivered, per toggle key
    old_input,  \* keyemulatorold: the tokens follow_tokens has still to yield
    old_tok,    \* keyemulatorold, main: the loop variable `tok`
    old_seq,    \* keyemulatorold, main: the key sequence resolved for tok
    key_data,   \* keyemulatorold: the steps of the sequence still to send
    old_mark,   \* keyemulatorold: the number of reports written before tok
    old_pc,     \* keyemulatorold: control point of main / send_key
    running,    \* azerty: self.running
    process,    \* azerty: the evtest process, "alive" or "terminated"
    log_file,   \* azerty: self.log_file, "open" or "closed"
    read_pc,    \* azerty: control point of the thread running read_events
    stop_pc,    \* azerty: control point of stop_logging
    late_write, \* azerty: whether log_file.write was called on the closed file
    bt_running, \* bt: self.running
    bt_buffer,  \* bt, monitor_device: the local variable buffer
    bt_pc,      \* bt: control point of monitor_device
    executed,   \* bt: the commands execute_command was called with, in order
    bt_reads    \* bt: the number of device.read calls that returned data

\* The variables of the replayer, of the report builders, of the live
\* processor and of the logger.
replayVars == <<log, start, pos, pending, token, tokens, tok, pc, taps>>

codecVars == <<arg, ret>>

liveVars ==
    <<modifiers, hid_fd, held, caps_on, kev, res, presses, write_failed>>

loggerVars ==
    <<shift_pressed, left_alt_pressed, right_alt_pressed, caps_lock, num_lock,
      ev, out, downs>>

oldVars == <<old_input, old_tok, old_seq, key_data, old_mark, old_pc>>

stopVars == <<running, process, log_file, read_pc, stop_pc, late_write>>

btVars == <<bt_running, bt_buffer, bt_pc, executed, bt_reads>>

vars == <<replayVars, hid, codecVars, liveVars, nevents, loggerVars, oldVars, stopVars, btVars>>

\* What the replayer leaves alone.
notReplay == <<codecVars, liveVars, nevents, loggerVars, oldVars, stopVars, btVars>>

\* The state of each part before it has done anything: the values its
\* variables keep in the specifications of the other parts.
ReplayIdle ==
    /\ log = <<>>
    /\ start = 0
    /\ pos = 0
    /\ pending = <<>>
    /\ token = ""
    /\ tokens = <<>>
    /\ tok = ""
    /\ pc = "read"
    /\ taps = <<>>

CodecIdle ==
    /\ arg = <<>>
    /\ ret = <<>>

\* maninthemiddle.py, __init__ lines 46-52 and 205.
LiveIdle ==
    /\ modifiers = [shift |-> FALSE, ctrl |-> FALSE, alt |-> FALSE,
                    altgr |-> FALSE, win |-> FALSE]
    /\ hid_fd = "none"
    /\ held = {}
    /\ caps_on = FALSE
    /\ kev = [name |-> "", scan_code |-> 0, event_type |-> "none"]
    /\ res = <<>>
    /\ presses = <<>>
    /\ write_failed = FALSE

\* azerty.py, __init__ lines 76-80.
LoggerIdle ==
    /\ shift_pressed = FALSE
    /\ left_alt_pressed = FALSE
    /\ right_alt_pressed = FALSE
    /\ caps_lock = FALSE
    /\ num_lock = TRUE
    /\ ev = <<>>
    /\ out = ""
    /\ downs = [KEY_CAPSLOCK |-> 0, KEY_NUMLOCK |-> 0]

\* keyemulatorold.py: main before the first token.
OldIdle ==
    /\ old_input = <<>>
    /\ old_tok = ""
    /\ old_seq = <<>>
    /\ key_data = <<>>
    /\ old_mark = 0
    /\ old_pc = "next"

\* azerty.py: start_logging has opened the log file, started evtest and the
\* reading thread (lines 158-181).
StopIdle ==
    /\ running = TRUE
    /\ process = "alive"
    /\ log_file = "open"
    /\ read_pc = "loop"
    /\ stop_pc = "idle"
    /\ late_write = FALSE

\* bt.py: __init__ line 12 and monitor_device line 189.
BtIdle ==
    /\ bt_running = TRUE
    /\ bt_buffer = <<>>
    /\ bt_pc = "read"
    /\ executed = <<>>
    /\ bt_reads = 0

----------------------------------------------------------------------------
(* Bounds of the model.                                                     *)

\* Longest enumerated input stream (the named streams below are longer).
MaxLen == 3

\* Most key events delivered in one run of the logger.
MaxEvents == 4

\* The number of key events delivered to the live processor.
MaxKeyEvents == 3

\* The number of tokens of an input of keyemulatorold.
MaxTokens == 2

----------------------------------------------------------------------------
(* keyemulator.py: tables.                                                  *)

\* '\x1b' and '\b', the two control characters TLA+ has no escape for.
\* A TLA+ string cannot hold the character '`' (0x60): the form feed, which
\* is in no table and in no input stream, stands for it.
ESC == ""

BS == ""

GRAVE == "\f"

UNSHIFTED ==
    ("a" :> 4) @@ ("b" :> 5) @@ ("c" :> 6) @@ ("d" :> 7) @@ ("e" :> 8) @@ ("f" :> 9) @@
    ("g" :> 10) @@ ("h" :> 11) @@ ("i" :> 12) @@ ("j" :> 13) @@ ("k" :> 14) @@ ("l" :> 15) @@
    ("m" :> 16) @@ ("n" :> 17) @@ ("o" :> 18) @@ ("p" :> 19) @@ ("q" :> 20) @@ ("r" :> 21) @@
    ("s" :> 22) @@ ("t" :> 23) @@ ("u" :> 24) @@ ("v" :> 25) @@ ("w" :> 26) @@ ("x" :> 27) @@
    ("y" :> 28) @@ ("z" :> 29) @@ ("1" :> 30) @@ ("2" :> 31) @@ ("3" :> 32) @@ ("4" :> 33) @@
    ("5" :> 34) @@ ("6" :> 35) @@ ("7" :> 36) @@ ("8" :> 37) @@ ("9" :> 38) @@ ("0" :> 39) @@
    ("\n" :> 40) @@ (ESC :> 41) @@ (BS :> 42) @@ ("\t" :> 43) @@ (" " :> 44) @@ ("-" :> 45) @@
    ("=" :> 46) @@ ("[" :> 47) @@ ("]" :> 48) @@ ("\\" :> 49) @@ (";" :> 51) @@ ("'" :> 52) @@
    (GRAVE :> 53) @@ ("," :> 54) @@ ("." :> 55) @@ ("/" :> 56) @@ ("É" :> 31) @@ ("À" :> 39) @@
    ("Ç" :> 38) @@ ("È" :> 36)

SHIFTED ==
    ("!" :> "1") @@ ("@" :> "2") @@ ("#" :> "3") @@ ("$" :> "4") @@ ("%" :> "5") @@ ("^" :> "6") @@
    ("&" :> "7") @@ ("*" :> "8") @@ ("(" :> "9") @@ (")" :> "0") @@ ("_" :> "-") @@ ("+" :> "=") @@
    ("{" :> "[") @@ ("}" :> "]") @@ ("|" :> "\\") @@ (":" :> ";") @@ ("\"" :> "'") @@ ("~" :> GRAVE) @@
    ("<" :> ",") @@ (">" :> ".") @@ ("?" :> "/")

SPECIAL ==
    ("[ESC]" :> <<0, 41>>) @@ ("[BACKSPACE]" :> <<0, 42>>) @@ ("[DELETE]" :> <<0, 76>>) @@
    ("[TAB]" :> <<0, 43>>) @@ ("[UP]" :> <<0, 82>>) @@ ("[DOWN]" :> <<0, 81>>) @@
    ("[LEFT]" :> <<0, 80>>) @@ ("[RIGHT]" :> <<0, 79>>) @@ ("[HOME]" :> <<0, 74>>) @@
    ("[END]" :> <<0, 77>>) @@ ("[PAGEUP]" :> <<0, 75>>) @@ ("[PAGEDOWN]" :> <<0, 78>>) @@
    ("[F1]" :> <<0, 58>>) @@ ("[F2]" :> <<0, 59>>) @@ ("[F3]" :> <<0, 60>>) @@
    ("[F4]" :> <<0, 61>>) @@ ("[F5]" :> <<0, 62>>) @@ ("[F6]" :> <<0, 63>>) @@
    ("[F7]" :> <<0, 64>>) @@ ("[F8]" :> <<0, 65>>) @@ ("[F9]" :> <<0, 66>>) @@
    ("[F10]" :> <<0, 67>>) @@ ("[F11]" :> <<0, 68>>) @@ ("[[]" :> <<0, 47>>) @@
    ("[F12]" :> <<0, 69>>)

IGNORED ==
    {"[SHIFT_PRESS]", "[SHIFT_RELEASE]",
     "[CTRL_PRESS]", "[CTRL_RELEASE]",
     "[ALT_PRESS]", "[ALT_RELEASE]",
     "[ALTGR_PRESS]", "[ALTGR_RELEASE]",
     "[NUMLOCK_ON]", "[NUMLOCK_OFF]", "[NUMLOCK_RELEASE]"}

\* str.lower() on the characters 'A' <= c <= 'Z'.
LOWER ==
    ("A" :> "a") @@ ("B" :> "b") @@ ("C" :> "c") @@ ("D" :> "d") @@ ("E" :> "e") @@
    ("F" :> "f") @@ ("G" :> "g") @@ ("H" :> "h") @@ ("I" :> "i") @@ ("J" :> "j") @@
    ("K" :> "k") @@ ("L" :> "l") @@ ("M" :> "m") @@ ("N" :> "n") @@ ("O" :> "o") @@
    ("P" :> "p") @@ ("Q" :> "q") @@ ("R" :> "r") @@ ("S" :> "s") @@ ("T" :> "t") @@
    ("U" :> "u") @@ ("V" :> "v") @@ ("W" :> "w") @@ ("X" :> "x") @@ ("Y" :> "y") @@
    ("Z" :> "z")

\* The byte values a report field can hold (bytes([...]) accepts 0..255).
Byte == 0 .. 255

----------------------------------------------------------------------------
(* keyemulator.py: make_report and the resolution of a token in main.       *)

\* A make_report that puts the usage code in the reserved byte.
make_report_reserved(modifier, usage) ==
    <<modifier, usage, 0, 0, 0, 0, 0, 0>>

make_report(modifier, usage) ==
    <<modifier, 0, usage, 0, 0, 0, 0, 0>>

\* maninthemiddle.py: struct.pack('8B', modifiers_byte, 0x00, scancode, ...).
create_hid_report(scancode, modifiers_byte) ==
    <<modifiers_byte, 0, scancode, 0, 0, 0, 0, 0>>

\* maninthemiddle.py, send_key_release: struct.pack('8B', 0x00, ..., 0x00).
release_report == <<0, 0, 0, 0, 0, 0, 0, 0>>

\* The result of the `continue` branches of main: no key is sent.
NoKey == <<>>

\* A resolution that forgets the Shift modifier of an upper-case letter.
TokenToKeyNoShift(t) ==
    IF t \in DOMAIN SPECIAL THEN SPECIAL[t]
    ELSE IF Len(t) = 1 THEN
        IF t \in DOMAIN SHIFTED THEN <<2, UNSHIFTED[SHIFTED[t]]>>
        ELSE IF t \in DOMAIN LOWER THEN <<0, UNSHIFTED[LOWER[t]]>>
        ELSE IF t \in DOMAIN UNSHIFTED THEN <<0, UNSHIFTED[t]>>
        ELSE NoKey
    ELSE NoKey

\* main, the body of the for loop up to the call of send_key: the
\* (mod, usage) pair of a token, or NoKey.
TokenToKey(t) ==
    IF t \in DOMAIN SPECIAL THEN SPECIAL[t]
    ELSE IF Len(t) = 1 THEN
        IF t \in DOMAIN SHIFTED THEN <<2, UNSHIFTED[SHIFTED[t]]>>
        ELSE IF t \in DOMAIN LOWER THEN <<2, UNSHIFTED[LOWER[t]]>>
        ELSE IF t \in DOMAIN UNSHIFTED THEN <<0, UNSHIFTED[t]>>
        ELSE NoKey
    ELSE NoKey

\* A tokenizer without the ignore filter.
YieldedAll(t) == TRUE

\* follow_tokens, line 100: a completed bracketed token is yielded unless ignored.
Yielded(t) == t \notin IGNORED

----------------------------------------------------------------------------
(* Input streams of the replayer.                                           *)

\* One character of each kind main distinguishes: unshifted, upper case,
\* shifted symbol, the two bracket characters, and one in no table ('\r').
Alphabet == {"a", "Q", "!", "[", "]", "\r"}

Streams(n) == UNION {[1 .. k -> Alphabet] : k \in 0 .. n}

HiBang == <<"H", "i", "!", "\n">>

TokenizerExample ==
    <<"a", "b", "[", "E", "N", "T", "E", "R", "]", "c",
      "[", "S", "H", "I", "F", "T", "_", "P", "R", "E", "S", "S", "]", "d">>

IgnoredStreams ==
    {<<"[", "S", "H", "I", "F", "T", "_", "P", "R", "E", "S", "S", "]">>,
     <<"[", "S", "H", "I", "F", "T", "_", "R", "E", "L", "E", "A", "S", "E", "]">>,
     <<"[", "C", "T", "R", "L", "_", "P", "R", "E", "S", "S", "]">>,
     <<"[", "C", "T", "R", "L", "_", "R", "E", "L", "E", "A", "S", "E", "]">>,
     <<"[", "A", "L", "T", "_", "P", "R", "E", "S", "S", "]">>,
     <<"[", "A", "L", "T", "_", "R", "E", "L", "E", "A", "S", "E", "]">>,
     <<"[", "A", "L", "T", "G", "R", "_", "P", "R", "E", "S", "S", "]">>,
     <<"[", "A", "L", "T", "G", "R", "_", "R", "E", "L", "E", "A", "S", "E", "]">>,
     <<"[", "N", "U", "M", "L", "O", "C", "K", "_", "O", "N", "]">>,
     <<"[", "N", "U", "M", "L", "O", "C", "K", "_", "O", "F", "F", "]">>,
     <<"[", "N", "U", "M", "L", "O", "C", "K", "_", "R", "E", "L", "E", "A", "S", "E", "]">>}

\* An unknown character, an unknown bracketed token, then a letter.
UnmappedExample == <<"\r", "[", "Q", "]", "a">>

Inputs ==
    Streams(MaxLen) \cup {HiBang, TokenizerExample, UnmappedExample}
        \cup IgnoredStreams

\* What the log file may already hold when the replayer opens it.
PreLogs == {<<>>, <<"[", "Q">>}

----------------------------------------------------------------------------
(* keyemulator.py: follow_tokens, main and send_key as a state machine.     *)
(* pc: "read"     follow_tokens, outer loop, before ch = fd.read(1)         *)
(*     "bracket"  follow_tokens, inner loop, before c2 = fd.read(1)         *)
(*     "dispatch" main, a token was yielded into tok                        *)
(*     "hold"     send_key, between the press write and the release write   *)
(*     "stopped"  the process was interrupted (KeyboardInterrupt)           *)
(*     "crashed"  a device write raised and the exception left main         *)

\* follow_tokens without the fd.seek(0, 2) of line 81: reading starts at the
\* beginning of the file.
InitReplayFromFileStart ==
    /\ log \in PreLogs
    /\ start = Len(log)
    /\ pos = 0
    /\ pending \in Inputs
    /\ token = ""
    /\ tokens = <<>>
    /\ tok = ""
    /\ pc = "read"
    /\ taps = <<>>
    /\ hid = <<>>
    /\ CodecIdle
    /\ LiveIdle
    /\ nevents = 0
    /\ LoggerIdle
    /\ OldIdle
    /\ StopIdle
    /\ BtIdle

InitReplay ==
    /\ log \in PreLogs
    /\ start = Len(log)
    /\ pos = Len(log)
    /\ pending \in Inputs
    /\ token = ""
    /\ tokens = <<>>
    /\ tok = ""
    /\ pc = "read"
    /\ taps = <<>>
    /\ hid = <<>>
    /\ CodecIdle
    /\ LiveIdle
    /\ nevents = 0
    /\ LoggerIdle
    /\ OldIdle
    /\ StopIdle
    /\ BtIdle

\* The writer of the log appends its next character.
AppendChar ==
    /\ pending /= <<>>
    /\ log' = Append(log, Head(pending))
    /\ pending' = Tail(pending)
    /\ UNCHANGED <<start, pos, token, tokens, tok, pc, taps, hid>>
    /\ UNCHANGED notReplay

\* follow_tokens, outer loop: a character is available.
ReadChar ==
    /\ pc = "read"
    /\ pos < Len(log)
    /\ pos' = pos + 1
    /\ LET ch == log[pos + 1] IN
        IF ch = "["
        THEN /\ token' = "["
             /\ pc' = "bracket"
             /\ UNCHANGED <<tokens, tok>>
        ELSE /\ tokens' = Append(tokens, ch)
             /\ tok' = ch
             /\ pc' = "dispatch"
             /\ UNCHANGED token
    /\ UNCHANGED <<log, start, pending, taps, hid>>
    /\ UNCHANGED notReplay

\* An inner loop that tests for "]" before appending it to the token.
ReadBracketDropsClose ==
    /\ pc = "bracket"
    /\ pos < Len(log)
    /\ pos' = pos + 1
    /\ LET c2 == log[pos + 1] IN
        IF c2 = "]"
        THEN /\ token' = token
             /\ IF Yielded(token)
                THEN /\ tokens' = Append(tokens, token)
                     /\ tok' = token
                     /\ pc' = "dispatch"
                ELSE /\ pc' = "read"
                     /\ UNCHANGED <<tokens, tok>>
        ELSE /\ token' = token \o c2
             /\ pc' = "bracket"
             /\ UNCHANGED <<tokens, tok>>
    /\ UNCHANGED <<log, start, pending, taps, hid>>
    /\ UNCHANGED notReplay

\* follow_tokens, inner loop: a character of a bracketed token is available.
ReadBracket ==
    /\ pc = "bracket"
    /\ pos < Len(log)
    /\ pos' = pos + 1
    /\ LET c2 == log[pos + 1] IN
        /\ token' = token \o c2
        /\ IF c2 = "]"
           THEN IF Yielded(token')
                THEN /\ tokens' = Append(tokens, token')
                     /\ tok' = token'
                     /\ pc' = "dispatch"
                ELSE /\ pc' = "read"
                     /\ UNCHANGED <<tokens, tok>>
           ELSE /\ pc' = "bracket"
                /\ UNCHANGED <<tokens, tok>>
    /\ UNCHANGED <<log, start, pending, taps, hid>>
    /\ UNCHANGED notReplay

\* A tokenizer that takes the end of the data for the end of the token.
PollGivesUp ==
    /\ pc \in {"read", "bracket"}
    /\ pos = Len(log)
    /\ IF pc = "bracket"
       THEN /\ tokens' = Append(tokens, token)
            /\ tok' = token
            /\ pc' = "dispatch"
       ELSE UNCHANGED <<tokens, tok, pc>>
    /\ UNCHANGED <<log, start, pos, pending, token, taps, hid>>
    /\ UNCHANGED notReplay

\* follow_tokens, either loop: fd.read(1) returns '' at the end of the
\* data; the generator sleeps 0.1 s and reads again.
Poll ==
    /\ pc \in {"read", "bracket"}
    /\ pos = Len(log)
    /\ UNCHANGED vars

\* send_key, first half: fd.write(make_report(mod, usage)); fd.flush().
\* A failing write raises out of send_key and main.
WritePress(mod, usage) ==
    \/ /\ hid' = Append(hid, make_report(mod, usage))
       /\ pc' = "hold"
    \/ /\ hid' = hid
       /\ pc' = "crashed"

\* A loop body that looks an unknown token up and fails on it.
MainLoopBodyRaisesOnUnknown ==
    /\ pc = "dispatch"
    /\ LET key == TokenToKey(tok) IN
        IF key = NoKey
        THEN /\ pc' = "crashed"
             /\ UNCHANGED <<taps, hid>>
        ELSE /\ taps' = Append(taps, key)
             /\ WritePress(key[1], key[2])
    /\ UNCHANGED <<log, start, pos, pending, token, tokens, tok>>
    /\ UNCHANGED notReplay

\* main, one iteration of the for loop: resolve tok, then call send_key,
\* which runs up to its first time.sleep(delay).
MainLoopBody ==
    /\ pc = "dispatch"
    /\ LET key == TokenToKey(tok) IN
        IF key = NoKey
        THEN /\ pc' = "read"
             /\ UNCHANGED <<taps, hid>>
        ELSE /\ taps' = Append(taps, key)
             /\ WritePress(key[1], key[2])
    /\ UNCHANGED <<log, start, pos, pending, token, tokens, tok>>
    /\ UNCHANGED notReplay

\* A send_key that returns after the sleep without writing the release.
WriteReleaseSkipped ==
    /\ pc = "hold"
    /\ pc' = "read"
    /\ UNCHANGED <<log, start, pos, pending, token, tokens, tok, taps, hid>>
    /\ UNCHANGED notReplay

\* send_key, second half: fd.write(make_report(0x00, 0x00)); fd.flush();
\* then the generator is resumed.
WriteRelease ==
    /\ pc = "hold"
    /\ \/ /\ hid' = Append(hid, make_report(0, 0))
          /\ pc' = "read"
       \/ /\ hid' = hid
          /\ pc' = "crashed"
    /\ UNCHANGED <<log, start, pos, pending, token, tokens, tok, taps>>
    /\ UNCHANGED notReplay

\* SIGINT raises KeyboardInterrupt in main, which nothing catches: it can
\* arrive in either sleep of follow_tokens and in time.sleep(delay) of send_key.
Interrupt ==
    /\ pc \in {"read", "bracket", "dispatch", "hold"}
    /\ pc' = "stopped"
    /\ UNCHANGED <<log, start, pos, pending, token, tokens, tok, taps, hid>>
    /\ UNCHANGED notReplay

Halted == pc \in {"stopped", "crashed"}

Reader == ReadChar \/ ReadBracket \/ MainLoopBody \/ WriteRelease

NextReplay ==
    \/ AppendChar
    \/ ReadChar
    \/ ReadBracket
    \/ Poll
    \/ MainLoopBody
    \/ WriteRelease
    \/ Interrupt

SpecReplay == InitReplay /\ [][NextReplay]_vars

\* The replayer is a running process: its loops are always scheduled again.
FairReplay == SpecReplay /\ WF_vars(Reader)

----------------------------------------------------------------------------
(* The report builders applied to every pair of byte arguments.             *)

InitCodec ==
    /\ ReplayIdle
    /\ hid = <<>>
    /\ LiveIdle
    /\ nevents = 0
    /\ LoggerIdle
    /\ OldIdle
    /\ StopIdle
    /\ BtIdle
    /\ arg \in Byte \X Byte
    /\ ret = <<>>

\* keyemulator.py, send_key line 112: make_report(mod, usage).
CallMakeReport ==
    /\ ret' = <<"make_report", make_report(arg[1], arg[2])>>
    /\ UNCHANGED <<replayVars, hid, arg, liveVars, nevents, loggerVars, oldVars, stopVars, btVars>>

\* keyemulator.py, send_key line 115: make_report(0x00, 0x00).
CallMakeRelease ==
    /\ ret' = <<"make_report_release", make_report(0, 0)>>
    /\ UNCHANGED <<replayVars, hid, arg, liveVars, nevents, loggerVars, oldVars, stopVars, btVars>>

\* maninthemiddle.py, process_character line 299:
\* create_hid_report(scancode, hid_modifiers_byte).
CallCreateHidReport ==
    /\ ret' = <<"create_hid_report", create_hid_report(arg[2], arg[1])>>
    /\ UNCHANGED <<replayVars, hid, arg, liveVars, nevents, loggerVars, oldVars, stopVars, btVars>>

\* maninthemiddle.py, send_key_release.
CallSendKeyRelease ==
    /\ ret' = <<"send_key_release", release_report>>
    /\ UNCHANGED <<replayVars, hid, arg, liveVars, nevents, loggerVars, oldVars, stopVars, btVars>>

NextCodec ==
    \/ CallMakeReport
    \/ CallMakeRelease
    \/ CallCreateHidReport
    \/ CallSendKeyRelease

SpecCodec == InitCodec /\ [][NextCodec]_vars

\* The tokens the encoder of main is applied to: the characters of the
\* base and shift tables, the upper-case letters and the bracketed tokens.
EncodeInputs ==
    DOMAIN UNSHIFTED \cup DOMAIN SHIFTED \cup DOMAIN LOWER \cup DOMAIN SPECIAL

InitEncode ==
    /\ ReplayIdle
    /\ hid = <<>>
    /\ LiveIdle
    /\ nevents = 0
    /\ LoggerIdle
    /\ OldIdle
    /\ StopIdle
    /\ BtIdle
    /\ arg \in EncodeInputs
    /\ ret = <<>>

\* keyemulator.py, main lines 134-158: the (mod, usage) pair of the token.
CallEncode ==
    /\ ret' = <<"encode", TokenToKey(arg)>>
    /\ UNCHANGED <<replayVars, hid, arg, liveVars, nevents, loggerVars, oldVars, stopVars, btVars>>

NextEncode == CallEncode

\* The encoder of the replayer applied to one token.
SpecEncode == InitEncode /\ [][NextEncode]_vars

----------------------------------------------------------------------------
(* maninthemiddle.py: tables.                                               *)

\* The key name U+2212 (minus sign), which a TLA+ string cannot hold; no
\* key of the model has this name.
MINUS_SIGN == "U+2212"

azerty_base_map ==
    ("a" :> 4) @@ ("b" :> 5) @@ ("c" :> 6) @@ ("d" :> 7) @@ ("e" :> 8) @@ ("f" :> 9) @@
    ("g" :> 10) @@ ("h" :> 11) @@ ("i" :> 12) @@ ("j" :> 13) @@ ("k" :> 14) @@
    ("l" :> 15) @@ ("m" :> 16) @@ ("n" :> 17) @@ ("o" :> 18) @@ ("p" :> 19) @@
    ("q" :> 20) @@ ("r" :> 21) @@ ("s" :> 22) @@ ("t" :> 23) @@ ("u" :> 24) @@
    ("v" :> 25) @@ ("w" :> 26) @@ ("x" :> 27) @@ ("y" :> 28) @@ ("z" :> 29) @@
    ("k0" :> 39) @@ ("k1" :> 30) @@ ("k2" :> 31) @@ ("k3" :> 32) @@ ("k4" :> 33) @@
    ("k5" :> 34) @@ ("k6" :> 35) @@ ("k7" :> 36) @@ ("k8" :> 37) @@ ("k9" :> 38) @@
    ("0" :> 39) @@ ("1" :> 30) @@ ("2" :> 31) @@ ("3" :> 32) @@ ("4" :> 33) @@
    ("5" :> 34) @@ ("6" :> 35) @@ ("7" :> 36) @@ ("8" :> 37) @@ ("9" :> 38) @@
    ("^" :> 47) @@ ("&" :> 30) @@ ("*" :> 50) @@ ("(" :> 34) @@ (")" :> 45) @@
    ("$" :> 48) @@ ("!" :> 56) @@ ("-" :> 35) @@ (MINUS_SIGN :> 45) @@ ("=" :> 46) @@
    (";" :> 51) @@ ("[" :> 47) @@ ("]" :> 48) @@ ("'" :> 52) @@ ("\\" :> 50) @@
    ("c<" :> 100) @@ ("k>" :> 100) @@ ("," :> 54) @@ ("." :> 55) @@ ("/" :> 56) @@
    (GRAVE :> 53) @@ ("k." :> 54) @@ ("×" :> 50) @@ ("space" :> 44) @@
    ("enter" :> 40) @@ ("backspace" :> 42) @@ ("tab" :> 43) @@ ("escape" :> 41) @@
    ("delete" :> 76) @@ ("insert" :> 73) @@ ("home" :> 74) @@ ("end" :> 77) @@
    ("page up" :> 75) @@ ("page down" :> 78) @@ ("up" :> 82) @@ ("down" :> 81) @@
    ("left" :> 80) @@ ("right" :> 79) @@ ("f1" :> 58) @@ ("f2" :> 59) @@ ("f3" :> 60) @@
    ("f4" :> 61) @@ ("f5" :> 62) @@ ("f6" :> 63) @@ ("f7" :> 64) @@ ("f8" :> 65) @@
    ("f9" :> 66) @@ ("f10" :> 67) @@ ("f11" :> 68) @@ ("f12" :> 69)

azerty_shift_map ==
    ("!" :> 30) @@ ("@" :> 31) @@ ("#" :> 32) @@ ("$" :> 33) @@ ("%" :> 34) @@
    ("^" :> 35) @@ ("&" :> 36) @@ ("*" :> 37) @@ ("(" :> 38) @@ (")" :> 39) @@
    (":" :> 51) @@ ("_" :> 45) @@ ("+" :> 46) @@ ("\"" :> 52) @@ ("<" :> 54) @@
    (">" :> 55) @@ ("?" :> 56) @@ ("|" :> 50) @@ ("{" :> 47) @@ ("}" :> 48) @@
    ("÷" :> 55) @@ ("c>" :> 100)

azerty_altgr_map ==
    ("@" :> 31) @@ ("3" :> 32) @@ ("$" :> 33) @@ ("5" :> 34) @@ ("6" :> 35) @@
    ("{" :> 36) @@ ("[" :> 37) @@ ("]" :> 38) @@ ("}" :> 39) @@ ("\\" :> 45) @@
    ("=" :> 46) @@ ("~" :> 53)

hid_modifiers ==
    ("left_ctrl" :> 1) @@ ("left_shift" :> 2) @@ ("left_alt" :> 4) @@
    ("left_win" :> 8) @@ ("right_ctrl" :> 16) @@ ("right_shift" :> 32) @@
    ("right_alt" :> 64) @@ ("right_win" :> 128)

\* dict.get(key, default).
Get(d, key, default) == IF key \in DOMAIN d THEN d[key] ELSE default

\* a | b on non-negative integers.
RECURSIVE BitOr(_, _)
BitOr(a, b) ==
    IF a = 0 THEN b
    ELSE IF b = 0 THEN a
    ELSE (IF a % 2 = 1 \/ b % 2 = 1 THEN 1 ELSE 0) + 2 * BitOr(a \div 2, b \div 2)

\* str.lower() on a key name: the names of the model are lower case but
\* for the single upper-case letters.
Lower(name) == IF name \in DOMAIN LOWER THEN LOWER[name] ELSE name

\* key_lower.startswith('k') and len(key_lower) > 1, over the names that
\* reach get_hid_scancode: 'k' + digit, 'k.' and the table keys.
StartsWithK(key_lower) ==
    key_lower \in {"k0", "k1", "k2", "k3", "k4", "k5", "k6", "k7", "k8", "k9",
                   "k.", "k>"}

\* key_lower.startswith('c') and len(key_lower) > 1, likewise.
StartsWithC(key_lower) ==
    key_lower \in {"c<", "c>", "ctrl", "caps lock"}

----------------------------------------------------------------------------
(* maninthemiddle.py: AzertyKeyboardProcessor.                              *)

\* get_hid_scancode with the Shift table consulted before the AltGr table.
get_hid_scancode_shift_first(self_modifiers, key_name, hid_modifiers_byte) ==
    LET key_lower == Lower(key_name) IN
    IF key_lower \in DOMAIN azerty_shift_map
    THEN <<azerty_shift_map[key_lower], 32>>
    ELSE IF key_lower \in DOMAIN azerty_altgr_map /\ self_modifiers.altgr
    THEN <<azerty_altgr_map[key_lower], 64>>
    ELSE IF StartsWithK(key_lower)
    THEN <<Get(azerty_base_map, key_lower, 0), 32>>
    ELSE <<Get(azerty_base_map, key_lower, 0), 0>>

\* The <<scancode, modifier>> pair returned; self_modifiers is
\* self.modifiers at the call.
get_hid_scancode(self_modifiers, key_name, hid_modifiers_byte) ==
    LET key_lower == Lower(key_name) IN
    IF key_lower \in DOMAIN azerty_altgr_map /\ self_modifiers.altgr
    THEN <<azerty_altgr_map[key_lower], 64>>
    ELSE IF key_lower \in DOMAIN azerty_shift_map
    THEN <<azerty_shift_map[key_lower], 32>>
    ELSE IF StartsWithK(key_lower)
    THEN <<Get(azerty_base_map, key_lower, 0), 32>>
    ELSE IF StartsWithC(key_lower)
    THEN <<Get(azerty_base_map, key_lower, 0), 0>>
    ELSE <<Get(azerty_base_map, key_lower, 0), 0>>

\* process_character, lines 272-293: the <<scancode, hid_modifiers_byte>>
\* of the report.  modifiers_state has no 'right_ctrl' entry.
process_character(self_modifiers, char, modifiers_state) ==
    LET b1 == IF modifiers_state.ctrl THEN hid_modifiers["left_ctrl"] ELSE 0
        b2 == IF modifiers_state.shift
              THEN BitOr(b1, hid_modifiers["left_shift"]) ELSE b1
        b3 == IF modifiers_state.alt
              THEN BitOr(b2, hid_modifiers["left_alt"]) ELSE b2
        b4 == IF modifiers_state.win
              THEN BitOr(b3, hid_modifiers["left_win"]) ELSE b3
        r == get_hid_scancode(self_modifiers, char, b4)
    IN <<r[1], BitOr(b4, r[2])>>

\* handle_special_key, lines 313-327: the <<scancode, hid_modifiers_byte>>
\* of the report.
handle_special_key(self_modifiers, key_name, modifiers_state) ==
    LET b1 == IF modifiers_state.shift THEN hid_modifiers["left_shift"] ELSE 0
        b2 == IF modifiers_state.ctrl
              THEN BitOr(b1, hid_modifiers["left_ctrl"]) ELSE b1
        b3 == IF modifiers_state.alt
              THEN BitOr(b2, hid_modifiers["left_alt"]) ELSE b2
        b4 == IF modifiers_state.altgr
              THEN BitOr(b3, hid_modifiers["right_alt"]) ELSE b3
        b5 == IF modifiers_state.win
              THEN BitOr(b4, hid_modifiers["left_win"]) ELSE b4
        r == get_hid_scancode(self_modifiers, key_name, b5)
    IN <<r[1], b5>>

\* process_character lines 297-306 and handle_special_key lines 330-338:
\* send_hid_report(report), the sleep, send_key_release().  send_hid_report
\* writes only to an open device and swallows the exception of a failed
\* os.write, so each of the two writes may be missing.
SendPressRelease(scancode, hid_modifiers_byte) ==
    IF scancode = 0
    THEN /\ hid' = hid
         /\ write_failed' = write_failed
    ELSE \E pressed, released \in BOOLEAN :
            /\ hid' = hid
                \o (IF hid_fd = "open" /\ pressed
                    THEN <<create_hid_report(scancode, hid_modifiers_byte)>>
                    ELSE <<>>)
                \o (IF hid_fd = "open" /\ released
                    THEN <<release_report>>
                    ELSE <<>>)
            /\ write_failed' =
                    (write_failed \/ (hid_fd = "open" /\ ~(pressed /\ released)))

\* The update of self.modifiers, lines 346-355.
UpdateModifiers(name, down) ==
    IF name \in {"shift", "left shift", "right shift"}
    THEN [modifiers EXCEPT !.shift = down]
    ELSE IF name \in {"ctrl", "left ctrl", "right ctrl"}
    THEN [modifiers EXCEPT !.ctrl = down]
    ELSE IF name \in {"alt", "left alt"}
    THEN [modifiers EXCEPT !.alt = down]
    ELSE IF name \in {"alt gr", "right alt"}
    THEN [modifiers EXCEPT !.altgr = down]
    ELSE IF name \in {"windows", "left windows", "right windows"}
    THEN [modifiers EXCEPT !.win = down]
    ELSE modifiers

\* The variable char without the numpad prefix of lines 372-373.
EventCharRowOnly(name, scan_code) ==
    LET c2 == IF scan_code = 83 THEN "k." ELSE name
    IN IF scan_code = 86 THEN "c" \o c2 ELSE c2

\* The variable char of on_key_event, lines 369-377.
EventChar(name, scan_code) ==
    LET c1 == IF name \in {"1", "2", "3", "4", "5", "6", "7", "8", "9", "0"}
                 /\ scan_code > 11
              THEN "k" \o name ELSE name
        c2 == IF scan_code = 83 THEN "k." ELSE c1
    IN IF scan_code = 86 THEN "c" \o c2 ELSE c2

\* on_key_event without the test of event.event_type at line 358.
on_key_event_any_type(name, scan_code, event_type) ==
    LET down == (event_type = "down")
        mods == UpdateModifiers(name, down)
        char == EventChar(name, scan_code)
        key == IF Len(name) = 1
               THEN process_character(mods, char, mods)
               ELSE handle_special_key(mods, name, mods)
    IN /\ modifiers' = mods
       /\ kev' = [name |-> name, scan_code |-> scan_code,
                  event_type |-> event_type]
       /\ IF TRUE
          THEN /\ res' = key
               /\ presses' = IF key[1] = 0
                             THEN presses
                             ELSE Append(presses,
                                         create_hid_report(key[1], key[2]))
               /\ SendPressRelease(key[1], key[2])
          ELSE /\ res' = <<>>
               /\ presses' = presses
               /\ hid' = hid
               /\ write_failed' = write_failed

\* on_key_event, lines 342-391.
on_key_event(name, scan_code, event_type) ==
    LET down == (event_type = "down")
        mods == UpdateModifiers(name, down)
        char == EventChar(name, scan_code)
        key == IF Len(name) = 1
               THEN process_character(mods, char, mods)
               ELSE handle_special_key(mods, name, mods)
    IN /\ modifiers' = mods
       /\ kev' = [name |-> name, scan_code |-> scan_code,
                  event_type |-> event_type]
       /\ IF down
          THEN /\ res' = key
               /\ presses' = IF key[1] = 0
                             THEN presses
                             ELSE Append(presses,
                                         create_hid_report(key[1], key[2]))
               /\ SendPressRelease(key[1], key[2])
          ELSE /\ res' = <<>>
               /\ presses' = presses
               /\ hid' = hid
               /\ write_failed' = write_failed

\* The keys of the keyboard, by the name and the scan code of their events.
LiveKeys ==
    {[name |-> "shift", scan_code |-> 42],
     [name |-> "right shift", scan_code |-> 54],
     [name |-> "ctrl", scan_code |-> 29],
     [name |-> "right ctrl", scan_code |-> 97],
     [name |-> "alt", scan_code |-> 56],
     [name |-> "alt gr", scan_code |-> 100],
     [name |-> "windows", scan_code |-> 125],
     [name |-> "right windows", scan_code |-> 126],
     [name |-> "a", scan_code |-> 16],
     [name |-> "1", scan_code |-> 2],
     [name |-> "1", scan_code |-> 79],
     [name |-> "enter", scan_code |-> 28],
     [name |-> "caps lock", scan_code |-> 58],
     [name |-> "!", scan_code |-> 53],
     [name |-> "$", scan_code |-> 27]}

\* __init__: init_hid_device opens the device or leaves hid_fd None.
InitLive ==
    /\ ReplayIdle
    /\ hid = <<>>
    /\ CodecIdle
    /\ modifiers = [shift |-> FALSE, ctrl |-> FALSE, alt |-> FALSE,
                    altgr |-> FALSE, win |-> FALSE]
    /\ hid_fd \in {"open", "none"}
    /\ held = {}
    /\ caps_on = FALSE
    /\ kev = [name |-> "", scan_code |-> 0, event_type |-> "none"]
    /\ res = <<>>
    /\ presses = <<>>
    /\ write_failed = FALSE
    /\ nevents = 0
    /\ LoggerIdle
    /\ OldIdle
    /\ StopIdle
    /\ BtIdle

\* A key goes down and the hook calls on_key_event.
KeyDown ==
    \E k \in LiveKeys :
        /\ nevents < MaxKeyEvents
        /\ k.scan_code \notin held
        /\ held' = held \cup {k.scan_code}
        /\ caps_on' = IF k.name = "caps lock" THEN ~caps_on ELSE caps_on
        /\ nevents' = nevents + 1
        /\ on_key_event(k.name, k.scan_code, "down")
        /\ UNCHANGED <<replayVars, codecVars, hid_fd, loggerVars, oldVars, stopVars, btVars>>

\* A held key goes up and the hook calls on_key_event.
KeyUp ==
    \E k \in LiveKeys :
        /\ nevents < MaxKeyEvents
        /\ k.scan_code \in held
        /\ held' = held \ {k.scan_code}
        /\ caps_on' = caps_on
        /\ nevents' = nevents + 1
        /\ on_key_event(k.name, k.scan_code, "up")
        /\ UNCHANGED <<replayVars, codecVars, hid_fd, loggerVars, oldVars, stopVars, btVars>>

NextLive ==
    \/ KeyDown
    \/ KeyUp

SpecLive == InitLive /\ [][NextLive]_vars

----------------------------------------------------------------------------
(* azerty.py: tables of KeyboardLogger.                                     *)

key_map ==
    ("KEY_A" :> "a") @@ ("KEY_B" :> "b") @@ ("KEY_C" :> "c") @@ ("KEY_D" :> "d") @@
    ("KEY_E" :> "e") @@ ("KEY_F" :> "f") @@ ("KEY_G" :> "g") @@ ("KEY_H" :> "h") @@
    ("KEY_I" :> "i") @@ ("KEY_J" :> "j") @@ ("KEY_K" :> "k") @@ ("KEY_L" :> "l") @@
    ("KEY_M" :> "m") @@ ("KEY_N" :> "n") @@ ("KEY_O" :> "o") @@ ("KEY_P" :> "p") @@
    ("KEY_Q" :> "q") @@ ("KEY_R" :> "r") @@ ("KEY_S" :> "s") @@ ("KEY_T" :> "t") @@
    ("KEY_U" :> "u") @@ ("KEY_V" :> "v") @@ ("KEY_W" :> "w") @@ ("KEY_X" :> "x") @@
    ("KEY_Y" :> "y") @@ ("KEY_Z" :> "z") @@ ("KEY_1" :> "1") @@ ("KEY_2" :> "2") @@
    ("KEY_3" :> "3") @@ ("KEY_4" :> "4") @@ ("KEY_5" :> "5") @@ ("KEY_6" :> "6") @@
    ("KEY_7" :> "7") @@ ("KEY_8" :> "8") @@ ("KEY_9" :> "9") @@ ("KEY_0" :> "0") @@
    ("KEY_SPACE" :> " ") @@ ("KEY_ENTER" :> "\n") @@ ("KEY_TAB" :> "\t") @@
    ("KEY_BACKSPACE" :> "[BACKSPACE]") @@ ("KEY_DELETE" :> "[DELETE]") @@
    ("KEY_LEFTSHIFT" :> "[SHIFT]") @@ ("KEY_RIGHTSHIFT" :> "[SHIFT]") @@
    ("KEY_LEFTCTRL" :> "[CTRL]") @@ ("KEY_RIGHTCTRL" :> "[CTRL]") @@
    ("KEY_LEFTALT" :> "[ALT]") @@ ("KEY_RIGHTALT" :> "[ALT_RIGHT]") @@
    ("KEY_ESC" :> "[ESC]") @@ ("KEY_F1" :> "[F1]") @@ ("KEY_F2" :> "[F2]") @@
    ("KEY_F3" :> "[F3]") @@ ("KEY_F4" :> "[F4]") @@ ("KEY_F5" :> "[F5]") @@
    ("KEY_F6" :> "[F6]") @@ ("KEY_F7" :> "[F7]") @@ ("KEY_F8" :> "[F8]") @@
    ("KEY_F9" :> "[F9]") @@ ("KEY_F10" :> "[F10]") @@ ("KEY_F11" :> "[F11]") @@
    ("KEY_F12" :> "[F12]") @@ ("KEY_UP" :> "[UP]") @@ ("KEY_DOWN" :> "[DOWN]") @@
    ("KEY_LEFT" :> "[LEFT]") @@ ("KEY_RIGHT" :> "[RIGHT]") @@
    ("KEY_HOME" :> "[HOME]") @@ ("KEY_END" :> "[END]") @@
    ("KEY_PAGEUP" :> "[PAGEUP]") @@ ("KEY_PAGEDOWN" :> "[PAGEDOWN]") @@
    ("KEY_DOT" :> ".") @@ ("KEY_COMMA" :> ",") @@ ("KEY_SEMICOLON" :> ";") @@
    ("KEY_APOSTROPHE" :> "'") @@ ("KEY_GRAVE" :> GRAVE) @@ ("KEY_MINUS" :> "-") @@
    ("KEY_EQUAL" :> "=") @@ ("KEY_LEFTBRACE" :> "[LEFTBRACE]") @@
    ("KEY_RIGHTBRACE" :> "]") @@ ("KEY_BACKSLASH" :> "\\") @@ ("KEY_SLASH" :> "/") @@
    ("KEY_102ND" :> "[<]") @@ ("KEY_KP0" :> ")") @@ ("KEY_KP1" :> "!") @@
    ("KEY_KP2" :> "@") @@ ("KEY_KP3" :> "#") @@ ("KEY_KP4" :> "$") @@
    ("KEY_KP5" :> "%") @@ ("KEY_KP6" :> "^") @@ ("KEY_KP7" :> "&") @@
    ("KEY_KP8" :> "*") @@ ("KEY_KP9" :> "(") @@ ("KEY_KPDOT" :> ".") @@
    ("KEY_KPPLUS" :> "+") @@ ("KEY_KPMINUS" :> "6") @@ ("KEY_KPASTERISK" :> "\\") @@
    ("KEY_KPSLASH" :> ">") @@ ("KEY_KPENTER" :> "\n") @@ ("KEY_KPEQUAL" :> "[NUM=]") @@
    ("KEY_NUMLOCK" :> "[NUMLOCK]") @@ ("KEY_KPCOMMA" :> "[NUM,]") @@
    ("KEY_KPLEFTPAREN" :> "[NUM(]") @@ ("KEY_KPRIGHTPAREN" :> "[NUM)]")

shift_map ==
    ("1" :> "!") @@ ("2" :> "@") @@ ("3" :> "#") @@ ("4" :> "$") @@ ("5" :> "%") @@
    ("6" :> "^") @@ ("7" :> "&") @@ ("8" :> "*") @@ ("9" :> "(") @@ ("0" :> ")") @@
    ("-" :> "_") @@ ("=" :> "+") @@ ("[" :> "{") @@ ("]" :> "}") @@ ("\\" :> "|") @@
    (";" :> ":") @@ ("'" :> "\"") @@ (GRAVE :> "~") @@ ("," :> "<") @@ ("." :> ">") @@
    ("/" :> "?") @@ ("[<]" :> "[>]")

altgr_map ==
    ("2" :> "[~]") @@ ("3" :> "[#]") @@ ("4" :> "[{]") @@ ("5" :> "[[]") @@
    ("6" :> "[|]") @@ ("7" :> "[" \o GRAVE \o "]") @@ ("8" :> "[\\]") @@
    ("9" :> "[^]") @@ ("0" :> "[@]") @@ ("-" :> "[BRACK]") @@ ("=" :> "[}]")

numpad_numbers ==
    ("KEY_KP0" :> ")") @@ ("KEY_KP1" :> "!") @@ ("KEY_KP2" :> "@") @@
    ("KEY_KP3" :> "#") @@ ("KEY_KP4" :> "$") @@ ("KEY_KP5" :> "%") @@
    ("KEY_KP6" :> "^") @@ ("KEY_KP7" :> "&") @@ ("KEY_KP8" :> "*") @@
    ("KEY_KP9" :> "(") @@ ("KEY_KPDOT" :> "<") @@ ("KEY_KPPLUS" :> "+")

numpad_nav ==
    ("KEY_KP0" :> "0") @@ ("KEY_KP1" :> "1") @@ ("KEY_KP2" :> "2") @@
    ("KEY_KP3" :> "3") @@ ("KEY_KP4" :> "4") @@ ("KEY_KP5" :> "5") @@
    ("KEY_KP6" :> "6") @@ ("KEY_KP7" :> "7") @@ ("KEY_KP8" :> "8") @@
    ("KEY_KP9" :> "9") @@ ("KEY_KPDOT" :> ">")

\* str.upper() on the characters for which char.isalpha() holds: of the
\* values handle_key_press computes, the letters a to z.
UPPER ==
    ("a" :> "A") @@ ("b" :> "B") @@ ("c" :> "C") @@ ("d" :> "D") @@ ("e" :> "E") @@
    ("f" :> "F") @@ ("g" :> "G") @@ ("h" :> "H") @@ ("i" :> "I") @@ ("j" :> "J") @@
    ("k" :> "K") @@ ("l" :> "L") @@ ("m" :> "M") @@ ("n" :> "N") @@ ("o" :> "O") @@
    ("p" :> "P") @@ ("q" :> "Q") @@ ("r" :> "R") @@ ("s" :> "S") @@ ("t" :> "T") @@
    ("u" :> "U") @@ ("v" :> "V") @@ ("w" :> "W") @@ ("x" :> "X") @@ ("y" :> "Y") @@
    ("z" :> "Z")

\* The evtest key names of the model: those of key_map, CapsLock and one
\* key that key_map does not know.
LoggerKeys == DOMAIN key_map \cup {"KEY_CAPSLOCK", "KEY_LEFTMETA"}

\* key.startswith('KEY_KP') and key not in ['KEY_KPENTER', 'KEY_KPPLUS',
\* 'KEY_KPMINUS', 'KEY_KPASTERISK', 'KEY_KPSLASH'], over LoggerKeys.
IsNumpadKey(key) ==
    key \in {"KEY_KP0", "KEY_KP1", "KEY_KP2", "KEY_KP3", "KEY_KP4", "KEY_KP5",
             "KEY_KP6", "KEY_KP7", "KEY_KP8", "KEY_KP9", "KEY_KPDOT",
             "KEY_KPEQUAL", "KEY_KPCOMMA", "KEY_KPLEFTPAREN", "KEY_KPRIGHTPAREN"}

----------------------------------------------------------------------------
(* azerty.py: KeyboardLogger.                                               *)

handle_numpad_key(key) ==
    IF num_lock
    THEN Get(numpad_numbers, key, Get(key_map, key, "[" \o key \o "]"))
    ELSE Get(numpad_nav, key, Get(key_map, key, "[" \o key \o "]"))

\* handle_key_press, lines 251-266: the string written to the log file for
\* a key that is no modifier.  char.lower() in self.altgr_map is
\* char in self.altgr_map, no key of altgr_map being a letter.
PressedChar(key) ==
    IF IsNumpadKey(key)
    THEN handle_numpad_key(key)
    ELSE LET char == Get(key_map, key, "[" \o key \o "]") IN
         IF right_alt_pressed /\ char \in DOMAIN altgr_map
         THEN altgr_map[char]
         ELSE IF char \in DOMAIN UPPER
         THEN IF shift_pressed \/ caps_lock THEN UPPER[char] ELSE char
         ELSE IF shift_pressed /\ char \in DOMAIN shift_map
         THEN shift_map[char]
         ELSE char

handle_key_press(key) ==
    IF key \in {"KEY_LEFTSHIFT", "KEY_RIGHTSHIFT"}
    THEN /\ shift_pressed' = TRUE
         /\ out' = ""
         /\ UNCHANGED <<left_alt_pressed, right_alt_pressed, caps_lock, num_lock>>
    ELSE IF key = "KEY_LEFTALT"
    THEN /\ left_alt_pressed' = TRUE
         /\ out' = ""
         /\ UNCHANGED <<shift_pressed, right_alt_pressed, caps_lock, num_lock>>
    ELSE IF key = "KEY_RIGHTALT"
    THEN /\ right_alt_pressed' = TRUE
         /\ out' = ""
         /\ UNCHANGED <<shift_pressed, left_alt_pressed, caps_lock, num_lock>>
    ELSE IF key = "KEY_CAPSLOCK"
    THEN /\ caps_lock' = ~caps_lock
         /\ out' = ""
         /\ UNCHANGED <<shift_pressed, left_alt_pressed, right_alt_pressed, num_lock>>
    ELSE IF key = "KEY_NUMLOCK"
    THEN /\ num_lock' = ~num_lock
         /\ out' = ""
         /\ UNCHANGED <<shift_pressed, left_alt_pressed, right_alt_pressed, caps_lock>>
    ELSE /\ out' = PressedChar(key)
         /\ UNCHANGED <<shift_pressed, left_alt_pressed, right_alt_pressed,
                        caps_lock, num_lock>>

handle_key_release(key) ==
    /\ out' = ""
    /\ IF key \in {"KEY_LEFTSHIFT", "KEY_RIGHTSHIFT"}
       THEN /\ shift_pressed' = FALSE
            /\ UNCHANGED <<left_alt_pressed, right_alt_pressed, caps_lock, num_lock>>
       ELSE IF key = "KEY_LEFTALT"
       THEN /\ left_alt_pressed' = FALSE
            /\ UNCHANGED <<shift_pressed, right_alt_pressed, caps_lock, num_lock>>
       ELSE IF key = "KEY_RIGHTALT"
       THEN /\ right_alt_pressed' = FALSE
            /\ UNCHANGED <<shift_pressed, left_alt_pressed, caps_lock, num_lock>>
       ELSE UNCHANGED <<shift_pressed, left_alt_pressed, right_alt_pressed,
                        caps_lock, num_lock>>

\* parse_event_line on an EV_KEY line of evtest: key_part is the key name
\* and value the number after "value" (1 press, 0 release, 2 repeat).
parse_event_line(key_part, value) ==
    IF value = 1 /\ key_part \in DOMAIN key_map
    THEN handle_key_press(key_part)
    ELSE IF value = 0
    THEN handle_key_release(key_part)
    ELSE /\ out' = ""
         /\ UNCHANGED <<shift_pressed, left_alt_pressed, right_alt_pressed,
                        caps_lock, num_lock>>

InitLogger ==
    /\ ReplayIdle
    /\ hid = <<>>
    /\ CodecIdle
    /\ LiveIdle
    /\ nevents = 0
    /\ shift_pressed = FALSE
    /\ left_alt_pressed = FALSE
    /\ right_alt_pressed = FALSE
    /\ caps_lock = FALSE
    /\ num_lock = TRUE
    /\ ev = <<>>
    /\ out = ""
    /\ downs = [KEY_CAPSLOCK |-> 0, KEY_NUMLOCK |-> 0]
    /\ OldIdle
    /\ StopIdle
    /\ BtIdle

\* read_events: evtest prints one EV_KEY line and parse_event_line handles it.
EventLine ==
    \E key \in LoggerKeys, value \in {0, 1, 2} :
        /\ nevents < MaxEvents
        /\ nevents' = nevents + 1
        /\ ev' = <<key, value>>
        /\ downs' = IF value = 1 /\ key \in DOMAIN downs
                    THEN [downs EXCEPT ![key] = @ + 1]
                    ELSE downs
        /\ parse_event_line(key, value)
        /\ UNCHANGED <<replayVars, hid, codecVars, liveVars, oldVars, stopVars, btVars>>

NextLogger == EventLine

\* The logger fed by evtest through read_events and parse_event_line.
SpecLogger == InitLogger /\ [][NextLogger]_vars

\* The handler handle_key_press called with a key.
CallHandleKeyPress ==
    \E key \in LoggerKeys :
        /\ ev' = <<key, 1>>
        /\ handle_key_press(key)
        /\ UNCHANGED <<replayVars, hid, codecVars, liveVars, nevents, downs,
                     oldVars, stopVars, btVars>>

\* The handler handle_key_release called with a key.
CallHandleKeyRelease ==
    \E key \in LoggerKeys :
        /\ ev' = <<key, 0>>
        /\ handle_key_release(key)
        /\ UNCHANGED <<replayVars, hid, codecVars, liveVars, nevents, downs,
                     oldVars, stopVars, btVars>>

NextHandlers ==
    \/ CallHandleKeyPress
    \/ CallHandleKeyRelease

\* The two key handlers of a KeyboardLogger as operations of the object.
SpecHandlers == InitLogger /\ [][NextHandlers]_vars

----------------------------------------------------------------------------
(* keyemulatorold.py: tables.  SHIFTED, IGNORED and make_report are those   *)
(* of keyemulator.py.                                                       *)

\* The euro sign, a key of ALTGR_CHARS.
EURO == "U+20AC"

old_UNSHIFTED ==
    ("a" :> 4) @@ ("b" :> 5) @@ ("c" :> 6) @@ ("d" :> 7) @@ ("e" :> 8) @@ ("f" :> 9) @@
    ("g" :> 10) @@ ("h" :> 11) @@ ("i" :> 12) @@ ("j" :> 13) @@ ("k" :> 14) @@
    ("l" :> 15) @@ ("m" :> 16) @@ ("n" :> 17) @@ ("o" :> 18) @@ ("p" :> 19) @@
    ("q" :> 20) @@ ("r" :> 21) @@ ("s" :> 22) @@ ("t" :> 23) @@ ("u" :> 24) @@
    ("v" :> 25) @@ ("w" :> 26) @@ ("x" :> 27) @@ ("y" :> 28) @@ ("z" :> 29) @@
    ("1" :> 30) @@ ("2" :> 31) @@ ("3" :> 32) @@ ("4" :> 33) @@ ("5" :> 34) @@
    ("6" :> 35) @@ ("7" :> 36) @@ ("8" :> 37) @@ ("9" :> 38) @@ ("0" :> 39) @@
    ("\n" :> 40) @@ (ESC :> 41) @@ (BS :> 42) @@ ("\t" :> 43) @@ (" " :> 44) @@
    ("-" :> 45) @@ ("=" :> 46) @@ ("[" :> 47) @@ ("]" :> 48) @@ ("\\" :> 49) @@
    (";" :> 51) @@ ("'" :> 52) @@ (GRAVE :> 53) @@ ("," :> 54) @@ ("." :> 55) @@
    ("/" :> 56)

AZERTY_DIRECT ==
    ("&" :> <<0, 30>>) @@ ("é" :> <<0, 31>>) @@ ("\"" :> <<0, 32>>) @@
    ("'" :> <<0, 33>>) @@ ("(" :> <<0, 34>>) @@ ("-" :> <<0, 35>>) @@
    ("è" :> <<0, 36>>) @@ ("_" :> <<0, 37>>) @@ ("ç" :> <<0, 38>>) @@
    ("à" :> <<0, 39>>) @@ (")" :> <<0, 45>>) @@ ("=" :> <<0, 46>>) @@
    ("1" :> <<2, 30>>) @@ ("2" :> <<2, 31>>) @@ ("3" :> <<2, 32>>) @@
    ("4" :> <<2, 33>>) @@ ("5" :> <<2, 34>>) @@ ("6" :> <<2, 35>>) @@
    ("7" :> <<2, 36>>) @@ ("8" :> <<2, 37>>) @@ ("9" :> <<2, 38>>) @@
    ("0" :> <<2, 39>>) @@ ("°" :> <<2, 45>>) @@ ("+" :> <<2, 46>>) @@
    ("^" :> <<0, 47>>) @@ ("$" :> <<0, 48>>) @@ ("ù" :> <<0, 52>>) @@
    ("*" :> <<0, 49>>) @@ ("m" :> <<0, 51>>) @@ ("!" :> <<0, 56>>) @@
    (";" :> <<0, 54>>) @@ (":" :> <<0, 55>>) @@ ("¨" :> <<2, 47>>) @@
    ("£" :> <<2, 48>>) @@ ("µ" :> <<2, 51>>) @@ ("%" :> <<2, 52>>) @@
    ("§" :> <<2, 56>>) @@ ("." :> <<2, 54>>) @@ ("/" :> <<2, 55>>) @@
    ("?" :> <<2, 54>>)

ALTGR_CHARS ==
    (EURO :> <<64, 8>>) @@ ("~" :> <<64, 31>>) @@ ("#" :> <<64, 32>>) @@
    ("{" :> <<64, 33>>) @@ ("[" :> <<64, 34>>) @@ ("|" :> <<64, 35>>) @@
    (GRAVE :> <<64, 36>>) @@ ("\\" :> <<64, 37>>) @@ ("]" :> <<64, 45>>) @@
    ("}" :> <<64, 46>>) @@ ("@" :> <<64, 39>>)

DEAD_KEY_COMBINATIONS ==
    ("á" :> <<<<0, 52>>, <<0, 4>>>>) @@ ("é" :> <<<<0, 52>>, <<0, 8>>>>) @@
    ("í" :> <<<<0, 52>>, <<0, 12>>>>) @@ ("ó" :> <<<<0, 52>>, <<0, 18>>>>) @@
    ("ú" :> <<<<0, 52>>, <<0, 24>>>>) @@ ("ý" :> <<<<0, 52>>, <<0, 28>>>>) @@
    ("à" :> <<<<0, 53>>, <<0, 4>>>>) @@ ("è" :> <<<<0, 53>>, <<0, 8>>>>) @@
    ("ì" :> <<<<0, 53>>, <<0, 12>>>>) @@ ("ò" :> <<<<0, 53>>, <<0, 18>>>>) @@
    ("ù" :> <<<<0, 53>>, <<0, 24>>>>) @@ ("â" :> <<<<0, 47>>, <<0, 4>>>>) @@
    ("ê" :> <<<<0, 47>>, <<0, 8>>>>) @@ ("î" :> <<<<0, 47>>, <<0, 12>>>>) @@
    ("ô" :> <<<<0, 47>>, <<0, 18>>>>) @@ ("û" :> <<<<0, 47>>, <<0, 24>>>>) @@
    ("ä" :> <<<<2, 47>>, <<0, 4>>>>) @@ ("ë" :> <<<<2, 47>>, <<0, 8>>>>) @@
    ("ï" :> <<<<2, 47>>, <<0, 12>>>>) @@ ("ö" :> <<<<2, 47>>, <<0, 18>>>>) @@
    ("ü" :> <<<<2, 47>>, <<0, 24>>>>) @@ ("ÿ" :> <<<<2, 47>>, <<0, 28>>>>) @@
    ("ç" :> <<<<0, 6>>>>)

old_SPECIAL ==
    ("[ESC]" :> <<0, 41>>) @@ ("[BACKSPACE]" :> <<0, 42>>) @@
    ("[DELETE]" :> <<0, 76>>) @@ ("[TAB]" :> <<0, 43>>) @@ ("[UP]" :> <<0, 82>>) @@
    ("[DOWN]" :> <<0, 81>>) @@ ("[LEFT]" :> <<0, 80>>) @@ ("[RIGHT]" :> <<0, 79>>) @@
    ("[HOME]" :> <<0, 74>>) @@ ("[END]" :> <<0, 77>>) @@ ("[PAGEUP]" :> <<0, 75>>) @@
    ("[PAGEDOWN]" :> <<0, 78>>) @@ ("[F1]" :> <<0, 58>>) @@ ("[F2]" :> <<0, 59>>) @@
    ("[F3]" :> <<0, 60>>) @@ ("[F4]" :> <<0, 61>>) @@ ("[F5]" :> <<0, 62>>) @@
    ("[F6]" :> <<0, 63>>) @@ ("[F7]" :> <<0, 64>>) @@ ("[F8]" :> <<0, 65>>) @@
    ("[F9]" :> <<0, 66>>) @@ ("[F10]" :> <<0, 67>>) @@ ("[F11]" :> <<0, 68>>) @@
    ("[F12]" :> <<0, 69>>)

\* handle_special_char, lines 253-258; a combining accent is written as its
\* code point.
accent_map ==
    ("U+0301" :> <<0, 52>>) @@ ("U+0300" :> <<0, 53>>) @@ ("U+0302" :> <<0, 47>>) @@
    ("U+0308" :> <<2, 47>>)

----------------------------------------------------------------------------
(* keyemulatorold.py: the replayer with dead-key sequences.                 *)

\* <<is_handled, key_data>>.  unicodedata has no function decompose: line
\* 247 raises AttributeError, the except clause of lines 264-265 discards
\* it, lines 248-263 never run and the function returns (False, None).
handle_special_char(c) ==
    IF c \in DOMAIN AZERTY_DIRECT
    THEN <<TRUE, <<AZERTY_DIRECT[c]>>>>
    ELSE IF c \in DOMAIN ALTGR_CHARS
    THEN <<TRUE, <<ALTGR_CHARS[c]>>>>
    ELSE IF c \in DOMAIN DEAD_KEY_COMBINATIONS
    THEN <<TRUE, DEAD_KEY_COMBINATIONS[c]>>
    ELSE <<FALSE, <<>>>>

\* main, lines 291-334: the key sequence sent for a token, <<>> for a token
\* that is skipped.
OldKeyData(t) ==
    IF t \in DOMAIN old_SPECIAL THEN <<old_SPECIAL[t]>>
    ELSE IF Len(t) = 1 THEN
        LET handled == handle_special_char(t) IN
        IF handled[1] THEN handled[2]
        ELSE IF t \in DOMAIN SHIFTED THEN <<<<2, old_UNSHIFTED[SHIFTED[t]]>>>>
        ELSE IF t \in DOMAIN LOWER THEN <<<<2, old_UNSHIFTED[LOWER[t]]>>>>
        ELSE IF t \in DOMAIN old_UNSHIFTED THEN <<<<0, old_UNSHIFTED[t]>>>>
        ELSE <<>>
    ELSE <<>>

\* The tokens of the inputs: a base-table letter, a direct AZERTY character,
\* a dead-key character, an accented capital in no table, a bracketed key,
\* an unknown bracketed token and an unknown character.
OldAlphabet == {"a", "é", "ë", "É", "[F1]", "[XX]", "\r"}

OldInputs == UNION {[1 .. k -> OldAlphabet] : k \in 0 .. MaxTokens}

InitOld ==
    /\ ReplayIdle
    /\ hid = <<>>
    /\ CodecIdle
    /\ LiveIdle
    /\ nevents = 0
    /\ LoggerIdle
    /\ old_input \in OldInputs
    /\ old_tok = ""
    /\ old_seq = <<>>
    /\ key_data = <<>>
    /\ old_mark = 0
    /\ old_pc = "next"
    /\ StopIdle
    /\ BtIdle

\* send_key, lines 216-218: the press report of one step.  A failing write
\* raises out of send_key and main.
OldWritePress(step) ==
    \/ /\ hid' = Append(hid, make_report(step[1], step[2]))
       /\ old_pc' = "hold"
    \/ /\ hid' = hid
       /\ old_pc' = "crashed"

\* main, one iteration of the for loop: follow_tokens yields the next
\* token, main resolves it and calls send_key or send_key_sequence, which
\* runs up to the first time.sleep(delay).
OldMainLoopBody ==
    /\ old_pc = "next"
    /\ old_input /= <<>>
    /\ old_input' = Tail(old_input)
    /\ old_tok' = Head(old_input)
    /\ old_mark' = Len(hid)
    /\ LET key_sequence == OldKeyData(Head(old_input)) IN
        /\ old_seq' = key_sequence
        /\ IF key_sequence = <<>>
           THEN /\ key_data' = <<>>
                /\ UNCHANGED <<hid, old_pc>>
           ELSE /\ key_data' = Tail(key_sequence)
                /\ OldWritePress(Head(key_sequence))
    /\ UNCHANGED <<replayVars, codecVars, liveVars, nevents, loggerVars,
                   stopVars, btVars>>

\* A send_key that writes the release only after the last step of a sequence.
OldWriteReleaseAtEndOnly ==
    /\ old_pc = "hold"
    /\ IF key_data = <<>>
       THEN /\ hid' = Append(hid, make_report(0, 0))
            /\ old_pc' = "next"
       ELSE /\ hid' = hid
            /\ old_pc' = "step"
    /\ UNCHANGED <<old_input, old_tok, old_seq, key_data, old_mark>>
    /\ UNCHANGED <<replayVars, codecVars, liveVars, nevents, loggerVars,
                   stopVars, btVars>>

\* send_key, lines 219-221: the release report; then the next step of
\* send_key_sequence or the next token.
OldWriteRelease ==
    /\ old_pc = "hold"
    /\ \/ /\ hid' = Append(hid, make_report(0, 0))
          /\ old_pc' = IF key_data = <<>> THEN "next" ELSE "step"
       \/ /\ hid' = hid
          /\ old_pc' = "crashed"
    /\ UNCHANGED <<old_input, old_tok, old_seq, key_data, old_mark>>
    /\ UNCHANGED <<replayVars, codecVars, liveVars, nevents, loggerVars,
                   stopVars, btVars>>

\* send_key_sequence, lines 225-226: the next iteration of its loop.
OldNextStep ==
    /\ old_pc = "step"
    /\ key_data' = Tail(key_data)
    /\ OldWritePress(Head(key_data))
    /\ UNCHANGED <<old_input, old_tok, old_seq, old_mark>>
    /\ UNCHANGED <<replayVars, codecVars, liveVars, nevents, loggerVars,
                   stopVars, btVars>>

\* SIGINT raises KeyboardInterrupt in main, which nothing catches.
OldInterrupt ==
    /\ old_pc \in {"next", "hold", "step"}
    /\ old_pc' = "stopped"
    /\ UNCHANGED <<old_input, old_tok, old_seq, key_data, old_mark, hid>>
    /\ UNCHANGED <<replayVars, codecVars, liveVars, nevents, loggerVars,
                   stopVars, btVars>>

NextOld ==
    \/ OldMainLoopBody
    \/ OldWriteRelease
    \/ OldNextStep
    \/ OldInterrupt

\* The replayer keyemulatorold.py on the tokens of one input.
SpecOld == InitOld /\ [][NextOld]_vars

----------------------------------------------------------------------------
(* ghostchat.py: HIDKeyboard.send_combo and send_key.                       *)

\* self.key_map, lines 10-17 ("\n" is the Enter character).
ghost_key_map ==
    [a |-> 4, b |-> 5, c |-> 6, d |-> 7, e |-> 8, f |-> 9, g |-> 10,
     h |-> 11, i |-> 12, j |-> 13, k |-> 14, l |-> 15, m |-> 16, n |-> 17,
     o |-> 18, p |-> 19, q |-> 20, r |-> 21, s |-> 22, t |-> 23, u |-> 24,
     v |-> 25, w |-> 26, x |-> 27, y |-> 28, z |-> 29]
    @@ (" " :> 44) @@ ("\n" :> 40)
    @@ ("1" :> 30) @@ ("2" :> 31) @@ ("3" :> 32) @@ ("4" :> 33)
    @@ ("5" :> 34) @@ ("6" :> 35) @@ ("7" :> 36) @@ ("8" :> 37)
    @@ ("9" :> 38) @@ ("0" :> 39)

\* self.special_keys, lines 19-25.
special_keys ==
    [enter |-> 40, escape |-> 41, backspace |-> 42, tab |-> 43, space |-> 44,
     caps_lock |-> 57, f1 |-> 58, f2 |-> 59, f3 |-> 60, f4 |-> 61, f5 |-> 62,
     f6 |-> 63, f7 |-> 64, f8 |-> 65, f9 |-> 66, f10 |-> 67, f11 |-> 68,
     f12 |-> 69, home |-> 74, page_up |-> 75, delete |-> 76, end |-> 77,
     page_down |-> 78, right_arrow |-> 79, left_arrow |-> 80,
     down_arrow |-> 81, up_arrow |-> 82]

\* self.modifiers, lines 28-37.
ghost_modifiers ==
    [ctrl |-> 1, shift |-> 2, alt |-> 4, gui |-> 8, right_ctrl |-> 16,
     right_shift |-> 32, right_alt |-> 64, right_gui |-> 128]

\* get_keycode, lines 61-63.
get_keycode(char) == Get(ghost_key_map, Lower(char), 0)

\* The loop of send_combo with `modifier = ...` in place of `modifier |= ...`.
RECURSIVE send_combo_loop_last_wins(_, _, _, _)
send_combo_loop_last_wins(parts, n, modifier, keys) ==
    IF n > Len(parts)
    THEN [unknown |-> FALSE, modifier |-> modifier, keys |-> keys]
    ELSE LET part == parts[n]
         IN IF part \in DOMAIN ghost_modifiers
            THEN send_combo_loop_last_wins(parts, n + 1,
                                           ghost_modifiers[part], keys)
            ELSE IF part \in DOMAIN special_keys
            THEN send_combo_loop_last_wins(parts, n + 1, modifier,
                                           Append(keys, special_keys[part]))
            ELSE IF get_keycode(part) # 0
            THEN send_combo_loop_last_wins(parts, n + 1, modifier,
                                           Append(keys, get_keycode(part)))
            ELSE [unknown |-> TRUE, modifier |-> modifier, keys |-> keys]

\* send_combo, lines 84-102: the loop over the parts from part n on, with
\* the modifier byte and the key list accumulated so far; unknown is the
\* `return False` of line 102.
RECURSIVE send_combo_loop(_, _, _, _)
send_combo_loop(parts, n, modifier, keys) ==
    IF n > Len(parts)
    THEN [unknown |-> FALSE, modifier |-> modifier, keys |-> keys]
    ELSE LET part == parts[n]
         IN IF part \in DOMAIN ghost_modifiers
            THEN send_combo_loop(parts, n + 1,
                                 BitOr(modifier, ghost_modifiers[part]), keys)
            ELSE IF part \in DOMAIN special_keys
            THEN send_combo_loop(parts, n + 1, modifier,
                                 Append(keys, special_keys[part]))
            ELSE IF get_keycode(part) # 0
            THEN send_combo_loop(parts, n + 1, modifier,
                                 Append(keys, get_keycode(part)))
            ELSE [unknown |-> TRUE, modifier |-> modifier, keys |-> keys]

\* send_key, lines 39-59: the device is opened, the press report and the
\* all-zero release report are written; an IOError of the open or of
\* either write ends the call with False.
send_key(keycode, modifier) ==
    \E outcome \in {"sent", "open_failed", "press_failed", "release_failed"} :
        /\ hid' = hid
            \o (IF outcome \in {"sent", "release_failed"}
                THEN <<<<modifier, 0, keycode, 0, 0, 0, 0, 0>>>> ELSE <<>>)
            \o (IF outcome = "sent" THEN <<release_report>> ELSE <<>>)
        /\ ret' = <<"send_combo", outcome = "sent">>

\* send_combo, lines 75-109, on the parts of combo_string.lower().split('+'),
\* each stripped.
send_combo(parts) ==
    IF Len(parts) < 2
    THEN /\ ret' = <<"send_combo", FALSE>>
         /\ hid' = hid
    ELSE LET r == send_combo_loop(parts, 1, 0, <<>>)
         IN IF r.unknown \/ r.keys = <<>>
            THEN /\ ret' = <<"send_combo", FALSE>>
                 /\ hid' = hid
            ELSE send_key(r.keys[1], r.modifier)

\* The longest combination, in parts.
MaxParts == 3

\* The parts of the combinations: every modifier name, 'altgr' (a modifier
\* name of ghostchatV2 only), a letter, a special key and an unknown key.
ComboParts ==
    DOMAIN ghost_modifiers \cup {"altgr", "s", "enter", "?"}

Combos == UNION {[1..n -> ComboParts] : n \in 1..MaxParts}

InitCombo ==
    /\ ReplayIdle
    /\ hid = <<>>
    /\ LiveIdle
    /\ nevents = 0
    /\ LoggerIdle
    /\ OldIdle
    /\ StopIdle
    /\ BtIdle
    /\ arg \in Combos
    /\ ret = <<>>

\* interactive_mode / main: one call of send_combo.
CallSendCombo ==
    /\ ret = <<>>
    /\ send_combo(arg)
    /\ UNCHANGED <<replayVars, arg, liveVars, nevents, loggerVars, oldVars, stopVars, btVars>>

NextCombo == CallSendCombo

SpecCombo == InitCombo /\ [][NextCombo]_vars

----------------------------------------------------------------------------
(* translate.py: QwertyToAzertyTranslator.translate_key.                    *)

\* self.basic_mapping with 'a': 'a' in place of 'a': 'q'.
basic_mapping_a_kept ==
    [q |-> "a", w |-> "z", e |-> "e", r |-> "r", t |-> "t", y |-> "y",
     u |-> "u", i |-> "i", o |-> "o", p |-> "p",
     a |-> "a", s |-> "s", d |-> "d", f |-> "f", g |-> "g", h |-> "h",
     j |-> "j", k |-> "k", l |-> "l",
     z |-> "w", x |-> "x", c |-> "c", v |-> "v", b |-> "b", n |-> "n",
     m |-> "m"]
    @@ ("1" :> "1") @@ ("2" :> "2") @@ ("3" :> "3") @@ ("4" :> "4")
    @@ ("5" :> "5") @@ ("6" :> "6") @@ ("7" :> "7") @@ ("8" :> "8")
    @@ ("9" :> "9") @@ ("0" :> "0")

\* self.basic_mapping, lines 16-25.
basic_mapping ==
    [q |-> "a", w |-> "z", e |-> "e", r |-> "r", t |-> "t", y |-> "y",
     u |-> "u", i |-> "i", o |-> "o", p |-> "p",
     a |-> "q", s |-> "s", d |-> "d", f |-> "f", g |-> "g", h |-> "h",
     j |-> "j", k |-> "k", l |-> "l",
     z |-> "w", x |-> "x", c |-> "c", v |-> "v", b |-> "b", n |-> "n",
     m |-> "m"]
    @@ ("1" :> "1") @@ ("2" :> "2") @@ ("3" :> "3") @@ ("4" :> "4")
    @@ ("5" :> "5") @@ ("6" :> "6") @@ ("7" :> "7") @@ ("8" :> "8")
    @@ ("9" :> "9") @@ ("0" :> "0")

\* self.symbol_mapping, lines 28-41.
symbol_mapping ==
    (";" :> "m") @@ ("'" :> "ù") @@ ("[" :> "^") @@ ("]" :> "$")
    @@ ("\\" :> "*") @@ ("/" :> "!") @@ ("." :> ".") @@ ("," :> ",")
    @@ (GRAVE :> "²") @@ ("-" :> ")") @@ ("=" :> "=")

\* self.shifted_symbol_mapping, lines 44-67.
shifted_symbol_mapping ==
    ("!" :> "1") @@ ("@" :> "2") @@ ("#" :> "3") @@ ("$" :> "4")
    @@ ("%" :> "5") @@ ("^" :> "6") @@ ("&" :> "7") @@ ("*" :> "8")
    @@ ("(" :> "9") @@ (")" :> "0") @@ ("_" :> "°") @@ ("+" :> "+")
    @@ ("{" :> "¨") @@ ("}" :> "£") @@ ("|" :> "µ") @@ (":" :> "M")
    @@ ("\"" :> "%") @@ ("<" :> "?") @@ (">" :> ".") @@ ("?" :> "§")
    @@ ("~" :> "~")

\* self.altgr_mapping, lines 70-85.
altgr_mapping ==
    ("@" :> "~") @@ ("3" :> "#") @@ ("$" :> "{") @@ ("5" :> "[")
    @@ ("6" :> "|") @@ ("{" :> GRAVE) @@ ("[" :> "\\") @@ ("]" :> "^")
    @@ ("}" :> "@") @@ ("\\" :> "]") @@ ("=" :> "}") @@ ("~" :> "ê")

\* The names translate_key keeps as they are, line 101.
modifier_keys == {"shift", "ctrl", "alt", "alt gr", "altgr", "win", "cmd"}

\* 'altgr' in modifiers.lower(), line 105, on the modifiers field of a log
\* line: the active flag names of maninthemiddle.py line 364, of which only
\* 'altgr' holds the text 'altgr'.
HasAltGr(modifiers_field) == \E n \in 1..Len(modifiers_field) : modifiers_field[n] = "altgr"

\* mapped.upper(), line 125.
Upper(name) == IF name \in DOMAIN UPPER THEN UPPER[name] ELSE name

\* translate_key with the AltGr fallback of line 110 returning the base
\* mapping without the 'AltGr+' prefix.
translate_key_bare_fallback(key, modifiers_field) ==
    LET key_lower == Lower(key)
    IN IF key_lower \in modifier_keys
       THEN key
       ELSE IF HasAltGr(modifiers_field)
       THEN IF key \in DOMAIN altgr_mapping
            THEN "AltGr+" \o altgr_mapping[key]
            ELSE Get(basic_mapping, key_lower, key)
       ELSE IF key \in DOMAIN shifted_symbol_mapping
       THEN "Shift+" \o shifted_symbol_mapping[key]
       ELSE IF key \in DOMAIN symbol_mapping
       THEN symbol_mapping[key]
       ELSE IF key_lower \in DOMAIN basic_mapping
       THEN IF key \in DOMAIN LOWER
            THEN Upper(basic_mapping[key_lower])
            ELSE basic_mapping[key_lower]
       ELSE key

\* translate_key, lines 87-130.
translate_key(key, modifiers_field) ==
    LET key_lower == Lower(key)
    IN IF key_lower \in modifier_keys
       THEN key
       ELSE IF HasAltGr(modifiers_field)
       THEN IF key \in DOMAIN altgr_mapping
            THEN "AltGr+" \o altgr_mapping[key]
            ELSE "AltGr+" \o Get(basic_mapping, key_lower, key)
       ELSE IF key \in DOMAIN shifted_symbol_mapping
       THEN "Shift+" \o shifted_symbol_mapping[key]
       ELSE IF key \in DOMAIN symbol_mapping
       THEN symbol_mapping[key]
       ELSE IF key_lower \in DOMAIN basic_mapping
       THEN IF key \in DOMAIN LOWER
            THEN Upper(basic_mapping[key_lower])
            ELSE basic_mapping[key_lower]
       ELSE key

\* The keys of the cross-layout tables, in either case.
TableKeys ==
    DOMAIN basic_mapping \cup DOMAIN LOWER \cup DOMAIN symbol_mapping
        \cup DOMAIN shifted_symbol_mapping \cup DOMAIN altgr_mapping

\* Keys of log lines: the table keys, the modifier keys and keys of no table.
TranslateKeys ==
    TableKeys \cup modifier_keys \cup {"enter", "f1", "space", "é", "\r"}

\* The modifiers field of a log line: the active flags joined by ', '.
TranslateModifiers ==
    {<<>>, <<"shift">>, <<"altgr">>, <<"shift", "altgr">>, <<"ctrl", "alt">>}

InitTranslate ==
    /\ ReplayIdle
    /\ hid = <<>>
    /\ LiveIdle
    /\ nevents = 0
    /\ LoggerIdle
    /\ OldIdle
    /\ StopIdle
    /\ BtIdle
    /\ arg \in TranslateKeys \X TranslateModifiers
    /\ ret = <<>>

\* translate_log_file line 179: translate_key(key, modifiers).
CallTranslateKey ==
    /\ ret = <<>>
    /\ ret' = <<"translate_key", translate_key(arg[1], arg[2])>>
    /\ UNCHANGED <<replayVars, hid, arg, liveVars, nevents, loggerVars, oldVars, stopVars, btVars>>

\* translate_key applied to its own result, with the same modifiers.
CallTranslateAgain ==
    /\ ret # <<>>
    /\ ret[1] = "translate_key"
    /\ ret' = <<"translate_key_twice", translate_key(ret[2], arg[2])>>
    /\ UNCHANGED <<replayVars, hid, arg, liveVars, nevents, loggerVars, oldVars, stopVars, btVars>>

NextTranslate ==
    \/ CallTranslateKey
    \/ CallTranslateAgain

SpecTranslate == InitTranslate /\ [][NextTranslate]_vars

----------------------------------------------------------------------------
(* maninthemiddle.py: one digit key event under every modifier state.       *)

\* The digit keys, by event name and scan code: the number row (scan codes
\* 2..11) and the numeric keypad (scan codes 71..82).
DigitKeys ==
    {[name |-> "1", scan_code |-> 2], [name |-> "2", scan_code |-> 3],
     [name |-> "3", scan_code |-> 4], [name |-> "4", scan_code |-> 5],
     [name |-> "5", scan_code |-> 6], [name |-> "6", scan_code |-> 7],
     [name |-> "7", scan_code |-> 8], [name |-> "8", scan_code |-> 9],
     [name |-> "9", scan_code |-> 10], [name |-> "0", scan_code |-> 11],
     [name |-> "7", scan_code |-> 71], [name |-> "8", scan_code |-> 72],
     [name |-> "9", scan_code |-> 73], [name |-> "4", scan_code |-> 75],
     [name |-> "5", scan_code |-> 76], [name |-> "6", scan_code |-> 77],
     [name |-> "1", scan_code |-> 79], [name |-> "2", scan_code |-> 80],
     [name |-> "3", scan_code |-> 81], [name |-> "0", scan_code |-> 82]}

\* The processor with the device open and any of the modifier flags set by
\* earlier events.
InitDigits ==
    /\ ReplayIdle
    /\ hid = <<>>
    /\ CodecIdle
    /\ modifiers \in [{"shift", "ctrl", "alt", "altgr", "win"} -> BOOLEAN]
    /\ hid_fd = "open"
    /\ held = {}
    /\ caps_on = FALSE
    /\ kev = [name |-> "", scan_code |-> 0, event_type |-> "none"]
    /\ res = <<>>
    /\ presses = <<>>
    /\ write_failed = FALSE
    /\ nevents = 0
    /\ LoggerIdle
    /\ OldIdle
    /\ StopIdle
    /\ BtIdle

\* A digit key goes down and the hook calls on_key_event.
DigitDown ==
    \E k \in DigitKeys :
        /\ nevents = 0
        /\ held' = held \cup {k.scan_code}
        /\ caps_on' = caps_on
        /\ nevents' = nevents + 1
        /\ on_key_event(k.name, k.scan_code, "down")
        /\ UNCHANGED <<replayVars, codecVars, hid_fd, loggerVars, oldVars, stopVars, btVars>>

NextDigits == DigitDown

SpecDigits == InitDigits /\ [][NextDigits]_vars

----------------------------------------------------------------------------
(* azerty.py: the thread running read_events against stop_logging.          *)
(* read_pc: "loop"     read_events, before the test of the while loop       *)
(*          "readline" before line = self.process.stdout.readline()         *)
(*          "parse"    a line was read, before parse_event_line(line)       *)
(*          "done"     read_events has returned                             *)
(* stop_pc: "idle"     stop_logging has not been called                     *)
(*          "flagged"  after self.running = False                           *)
(*          "terminated" after self.process.terminate() and wait            *)
(*          "closed"   after self.log_file.close()                          *)

\* The most lines evtest prints in one run.
MaxLines == 2

\* The keys of the lines evtest prints: a character key and a modifier key.
StopKeys == {"KEY_A", "KEY_LEFTSHIFT"}

InitStop ==
    /\ ReplayIdle
    /\ hid = <<>>
    /\ CodecIdle
    /\ LiveIdle
    /\ nevents = 0
    /\ LoggerIdle
    /\ OldIdle
    /\ StopIdle
    /\ BtIdle

\* read_events, line 197: while self.running and self.process.
ReaderLoop ==
    /\ read_pc = "loop"
    /\ read_pc' = IF running THEN "readline" ELSE "done"
    /\ UNCHANGED <<running, process, log_file, stop_pc, late_write>>
    /\ UNCHANGED <<replayVars, hid, codecVars, liveVars, nevents, loggerVars,
                   oldVars, btVars>>

\* read_events, lines 198-200: readline returns the next line evtest
\* printed, or '' at the end of the output of a terminated evtest.
ReaderReadline ==
    /\ read_pc = "readline"
    /\ \/ \E key \in StopKeys, value \in {0, 1} :
            /\ nevents < MaxLines
            /\ process = "alive"
            /\ nevents' = nevents + 1
            /\ ev' = <<key, value>>
            /\ read_pc' = "parse"
       \/ /\ process = "terminated"
          /\ read_pc' = "done"
          /\ UNCHANGED <<nevents, ev>>
    /\ UNCHANGED <<running, process, log_file, stop_pc, late_write>>
    /\ UNCHANGED <<shift_pressed, left_alt_pressed, right_alt_pressed,
                   caps_lock, num_lock, out, downs>>
    /\ UNCHANGED <<replayVars, hid, codecVars, liveVars, oldVars, btVars>>

\* read_events, line 202: parse_event_line(line); handle_key_press calls
\* self.log_file.write(char) (line 269) whatever the state of the file, and
\* the ValueError of a closed file is caught at line 275.
ReaderParse ==
    /\ read_pc = "parse"
    /\ parse_event_line(ev[1], ev[2])
    /\ late_write' = (late_write \/ (log_file = "closed" /\ out' # ""))
    /\ read_pc' = "loop"
    /\ UNCHANGED <<running, process, log_file, stop_pc>>
    /\ UNCHANGED <<replayVars, hid, codecVars, liveVars, nevents, ev, downs,
                   oldVars, btVars>>

\* stop_logging, line 323, called from the signal handler of main.
StopFlag ==
    /\ stop_pc = "idle"
    /\ running' = FALSE
    /\ stop_pc' = "flagged"
    /\ UNCHANGED <<process, log_file, read_pc, late_write>>
    /\ UNCHANGED <<replayVars, hid, codecVars, liveVars, nevents, loggerVars,
                   oldVars, btVars>>

\* stop_logging, lines 325-330: terminate and wait.
StopTerminate ==
    /\ stop_pc = "flagged"
    /\ process' = "terminated"
    /\ stop_pc' = "terminated"
    /\ UNCHANGED <<running, log_file, read_pc, late_write>>
    /\ UNCHANGED <<replayVars, hid, codecVars, liveVars, nevents, loggerVars,
                   oldVars, btVars>>

\* stop_logging, lines 332-334: the file is closed; the reading thread is
\* not joined.
StopClose ==
    /\ stop_pc = "terminated"
    /\ log_file' = "closed"
    /\ stop_pc' = "closed"
    /\ UNCHANGED <<running, process, read_pc, late_write>>
    /\ UNCHANGED <<replayVars, hid, codecVars, liveVars, nevents, loggerVars,
                   oldVars, btVars>>

NextStop ==
    \/ ReaderLoop
    \/ ReaderReadline
    \/ ReaderParse
    \/ StopFlag
    \/ StopTerminate
    \/ StopClose

\* The reading thread and stop_logging, interleaved at these steps.
SpecStop == InitStop /\ [][NextStop]_vars

----------------------------------------------------------------------------
(* bt.py: BluetoothCommandMonitor.monitor_device.                           *)
(* bt_pc: "read"    inner loop, before data = device.read(1024)             *)
(*        "lines"   the loop `while '\n' in buffer`                         *)
(*        "stopped" monitor_device has returned                             *)

\* self.commands, lines 15-26, in the order of the dictionary.
commands ==
    <<"mimifr", "mimien", "mimiwin", "shutdown", "reboot", "hello", "status",
      "time", "help", "exit">>

IsCommand(word) == \E n \in 1..Len(commands) : commands[n] = word

\* parse_message, lines 162-185, on a line given as its words (lower case);
\* "" stands for None.  A word of the model holds a command only by being
\* that command.
parse_message(words) ==
    IF words = <<>> THEN ""
    ELSE IF IsCommand(words[1]) THEN words[1]
    ELSE IF \E n \in 1..Len(commands) :
                \E m \in 1..Len(words) : words[m] = commands[n]
    THEN commands[CHOOSE n \in 1..Len(commands) :
                    /\ \E m \in 1..Len(words) : words[m] = commands[n]
                    /\ \A k \in 1..(n - 1) :
                          \A m \in 1..Len(words) : words[m] # commands[k]]
    ELSE ""

\* The number of device.read calls that return data.
MaxReads == 2

\* The longest data of one device.read, in words and newlines.
MaxData == 3

\* What the device delivers: words separated by newlines ("\n").
BtAlphabet == {"exit", "hello", "xyz", "\n"}

BtData == UNION {[1..n -> BtAlphabet] : n \in 1..MaxData}

\* The index of the first newline of the buffer, 0 if there is none.
FirstNewline(buf) ==
    IF \E n \in 1..Len(buf) : buf[n] = "\n"
    THEN CHOOSE n \in 1..Len(buf) :
            buf[n] = "\n" /\ \A k \in 1..(n - 1) : buf[k] # "\n"
    ELSE 0

InitBt ==
    /\ ReplayIdle
    /\ hid = <<>>
    /\ CodecIdle
    /\ LiveIdle
    /\ nevents = 0
    /\ LoggerIdle
    /\ OldIdle
    /\ StopIdle
    /\ BtIdle

\* monitor_device, lines 207-210: device.read returns data, which is
\* appended to buffer.
BtRead ==
    /\ bt_pc = "read"
    /\ bt_reads < MaxReads
    /\ \E data \in BtData : bt_buffer' = bt_buffer \o data
    /\ bt_reads' = bt_reads + 1
    /\ bt_pc' = "lines"
    /\ UNCHANGED <<bt_running, executed>>
    /\ UNCHANGED <<replayVars, hid, codecVars, liveVars, nevents, loggerVars,
                   oldVars, stopVars>>

\* monitor_device, lines 213-227: one iteration of `while '\n' in buffer`.
\* The command of the line is executed; exit_command sets self.running to
\* False.  The loop does not test self.running.
BtLine ==
    /\ bt_pc = "lines"
    /\ FirstNewline(bt_buffer) # 0
    /\ LET n == FirstNewline(bt_buffer)
           line == SubSeq(bt_buffer, 1, n - 1)
           command == parse_message(line)
       IN /\ bt_buffer' = SubSeq(bt_buffer, n + 1, Len(bt_buffer))
          /\ executed' = IF command # "" THEN Append(executed, command)
                         ELSE executed
          /\ bt_running' = IF command = "exit" THEN FALSE ELSE bt_running
    /\ UNCHANGED <<bt_pc, bt_reads>>
    /\ UNCHANGED <<replayVars, hid, codecVars, liveVars, nevents, loggerVars,
                   oldVars, stopVars>>

\* monitor_device: no newline is left in buffer; the inner and the outer
\* `while self.running` go on or end.
BtLinesDone ==
    /\ bt_pc = "lines"
    /\ FirstNewline(bt_buffer) = 0
    /\ bt_pc' = IF bt_running THEN "read" ELSE "stopped"
    /\ UNCHANGED <<bt_running, bt_buffer, executed, bt_reads>>
    /\ UNCHANGED <<replayVars, hid, codecVars, liveVars, nevents, loggerVars,
                   oldVars, stopVars>>

NextBt ==
    \/ BtRead
    \/ BtLine
    \/ BtLinesDone

SpecBt == InitBt /\ [][NextBt]_vars

----------------------------------------------------------------------------
(* Properties.                                                              *)

\* The characters appended to the log since the replayer started, followed
\* by those still to be appended.
Input == SubSeq(log, start + 1, Len(log)) \o pending

\* The replayer has consumed the whole input and waits for more.
Drained == pending = <<>> /\ pos = Len(log) /\ pc = "read"

\* C1: every report is exactly 8 bytes; the press report built from
\* (modifier, usage) is [modifier, 0, usage, 0, 0, 0, 0, 0] for every
\* modifier and usage in 0..255, and the release report is 8 zero bytes
\* whatever the arguments of the press before it were.
C1_ReportIsEightBytes ==
    ret /= <<>> =>
        /\ Len(ret[2]) = 8
        /\ \A i \in 1 .. 8 : ret[2][i] \in Byte
        /\ ret[1] \in {"make_report", "create_hid_report"} =>
               /\ ret[2][1] = arg[1]
               /\ ret[2][3] = arg[2]
               /\ \A i \in {2, 4, 5, 6, 7, 8} : ret[2][i] = 0
        /\ ret[1] \in {"make_report_release", "send_key_release"} =>
               \A i \in 1 .. 8 : ret[2][i] = 0

C1_Witness ==
    /\ arg = <<255, 255>>
    /\ ret = <<"make_report", <<255, 0, 255, 0, 0, 0, 0, 0>>>>

\* C2: in every run, also one ended by an interrupt or by a failing device
\* write, the last report written to the device is never a press report.
C2_NoStuckKey ==
    Halted => (hid = <<>> \/ hid[Len(hid)] = <<0, 0, 0, 0, 0, 0, 0, 0>>)

\* C3: each completed call of send_key made exactly two writes, the press
\* report of its (mod, usage) and then the release report, with no other
\* report between them.
C3_TapIsPressThenRelease ==
    /\ Len(hid) <= 2 * Len(taps)
    /\ \A i \in 1 .. Len(taps) :
          /\ 2 * i - 1 <= Len(hid) =>
                hid[2 * i - 1] = <<taps[i][1], 0, taps[i][2], 0, 0, 0, 0, 0>>
          /\ 2 * i <= Len(hid) =>
                hid[2 * i] = <<0, 0, 0, 0, 0, 0, 0, 0>>
    /\ pc \in {"read", "bracket", "dispatch"} => Len(hid) = 2 * Len(taps)
    /\ pc = "hold" => Len(hid) = 2 * Len(taps) - 1

C3_Witness ==
    /\ pc = "read"
    /\ taps = <<<<2, 20>>, <<0, 4>>>>
    /\ Len(hid) = 4

\* The eight reports of "Hi!\n": Shift+h, i, Shift+1, Enter, each released.
HiBangReports ==
    <<<<2, 0, 11, 0, 0, 0, 0, 0>>, <<0, 0, 0, 0, 0, 0, 0, 0>>,
      <<0, 0, 12, 0, 0, 0, 0, 0>>, <<0, 0, 0, 0, 0, 0, 0, 0>>,
      <<2, 0, 30, 0, 0, 0, 0, 0>>, <<0, 0, 0, 0, 0, 0, 0, 0>>,
      <<0, 0, 40, 0, 0, 0, 0, 0>>, <<0, 0, 0, 0, 0, 0, 0, 0>>>>

\* C4: replaying the characters H, i, !, newline writes exactly the eight
\* reports press(0x02, h), release, press(0, i), release, press(0x02, 1),
\* release, press(0, Enter), release, in this order.
C4_HiBangReplay ==
    Input = HiBang =>
        /\ Len(hid) <= 8
        /\ hid = SubSeq(HiBangReports, 1, Len(hid))
        /\ Drained => hid = HiBangReports

C4_Witness ==
    /\ Input = HiBang
    /\ Drained
    /\ hid = HiBangReports

\* The concatenation of a sequence of characters.
RECURSIVE Join(_)
Join(s) == IF s = <<>> THEN "" ELSE Head(s) \o Join(Tail(s))

\* The index of the first "]" after the first character of s, or 0.
FirstClose(s) ==
    IF \E j \in 2 .. Len(s) : s[j] = "]"
    THEN CHOOSE j \in 2 .. Len(s) :
            s[j] = "]" /\ \A m \in 2 .. j - 1 : s[m] /= "]"
    ELSE 0

\* The tokens of the log grammar in a character sequence: a token that
\* starts with "[" runs to the first following "]", any other character is
\* a token; an unclosed "[" at the end is no token yet.
RECURSIVE GrammarTokens(_)
GrammarTokens(s) ==
    IF s = <<>> THEN <<>>
    ELSE IF Head(s) /= "[" THEN <<Head(s)>> \o GrammarTokens(Tail(s))
    ELSE IF FirstClose(s) = 0 THEN <<>>
    ELSE <<Join(SubSeq(s, 1, FirstClose(s)))>>
            \o GrammarTokens(SubSeq(s, FirstClose(s) + 1, Len(s)))

NotIgnored(t) ==
    t \notin {"[SHIFT_PRESS]", "[SHIFT_RELEASE]", "[CTRL_PRESS]", "[CTRL_RELEASE]",
              "[ALT_PRESS]", "[ALT_RELEASE]", "[ALTGR_PRESS]", "[ALTGR_RELEASE]",
              "[NUMLOCK_ON]", "[NUMLOCK_OFF]", "[NUMLOCK_RELEASE]"}

\* C5: the tokens yielded are, in stream order, the tokens of the grammar in
\* the characters read so far (less the ignore set); for the stream
\* ab[ENTER]c[SHIFT_PRESS]d they are exactly a, b, [ENTER], c, d.
C5_TokensInStreamOrder ==
    /\ tokens = SelectSeq(GrammarTokens(SubSeq(log, start + 1, pos)), NotIgnored)
    /\ (Input = TokenizerExample /\ pending = <<>> /\ pos = Len(log)) =>
            tokens = <<"a", "b", "[ENTER]", "c", "d">>

C5_Witness ==
    /\ Input = TokenizerExample
    /\ Drained
    /\ tokens = <<"a", "b", "[ENTER]", "c", "d">>

\* C6: no token of the ignore set is ever yielded, and reading one causes
\* no write to the device: every call of send_key is for a yielded token,
\* and a stream that is one ignored token leaves the device untouched.
C6_IgnoredNeverYielded ==
    /\ \A i \in 1 .. Len(tokens) : NotIgnored(tokens[i])
    /\ NotIgnored(tok)
    /\ Len(taps) <= Len(tokens)
    /\ Input \in IgnoredStreams => (tokens = <<>> /\ taps = <<>> /\ hid = <<>>)

C6_Witness ==
    /\ Input \in IgnoredStreams
    /\ Drained
    /\ pos = start + Len(Input)
    /\ token \in IGNORED
    /\ hid = <<>>

\* C7: at the end of the available data, between two tokens or inside a
\* bracketed token, follow_tokens neither terminates nor yields a partial
\* token, and once the whole stream has been appended every complete token
\* of it is eventually yielded (unless the process is stopped first).
C7_WaitsForMoreData ==
    /\ [][(pos = Len(log) /\ pc \in {"read", "bracket"} /\ pos' = pos)
            => (tokens' = tokens /\ token' = token /\ pc' \in {pc, "stopped"})]_vars
    /\ (pending = <<>>) ~>
            \/ Halted
            \/ /\ pos = Len(log)
               /\ tokens = SelectSeq(GrammarTokens(SubSeq(log, start + 1, Len(log))),
                                     NotIgnored)

C7_Witness ==
    /\ pc = "bracket"
    /\ pos = Len(log)
    /\ pending /= <<>>
    /\ Head(pending) = "]"
    /\ token = "[["

\* A key of the live keyboard with one of these names is held.
HeldNamed(names) ==
    \E k \in LiveKeys : k.name \in names /\ k.scan_code \in held

\* C8: after key events in which each physical key alternates Down and Up,
\* each of the flags shift, ctrl, alt, altgr and win is true exactly when
\* at least one physical key of that modifier, left or right, is held.
C8_FlagsMatchHeldKeys ==
    /\ modifiers.shift = HeldNamed({"shift", "left shift", "right shift"})
    /\ modifiers.ctrl = HeldNamed({"ctrl", "left ctrl", "right ctrl"})
    /\ modifiers.alt = HeldNamed({"alt", "left alt"})
    /\ modifiers.altgr = HeldNamed({"alt gr", "right alt"})
    /\ modifiers.win = HeldNamed({"windows", "left windows", "right windows"})

\* C9: the CapsLock flag and the NumLock flag each flip exactly once for
\* every Down event of their own key and are changed by nothing else: each
\* differs from its initial value exactly after an odd number of Downs.
C9_TogglesFollowDowns ==
    /\ caps_lock = (downs.KEY_CAPSLOCK % 2 = 1)
    /\ num_lock = (downs.KEY_NUMLOCK % 2 = 0)

\* C10: with both Shift and CapsLock active, every letter key resolves to
\* its unshifted, lower-case form.
C10_ShiftUndoesCapsLock ==
    (/\ ev /= <<>>
     /\ ev[2] = 1
     /\ ev[1] \in DOMAIN key_map
     /\ key_map[ev[1]] \in DOMAIN UPPER
     /\ shift_pressed
     /\ caps_lock) => out = key_map[ev[1]]

\* The last event is the Down of a letter key and none of Ctrl, Alt, AltGr
\* and Win is active.
LetterDown ==
    /\ kev.event_type = "down"
    /\ kev.name \in DOMAIN UPPER
    /\ ~modifiers.ctrl
    /\ ~modifiers.alt
    /\ ~modifiers.altgr
    /\ ~modifiers.win

\* C11: a letter resolved with no modifier active gives its base-table
\* usage code with modifier byte 0, and resolved with Shift or CapsLock
\* (not both) active the same usage code with the left-shift bit 0x02.
C11_LetterShiftBit ==
    (LetterDown /\ ~(modifiers.shift /\ caps_on))
        => res = <<azerty_base_map[kev.name],
                   IF modifiers.shift \/ caps_on THEN 2 ELSE 0>>

\* The key name on_key_event resolves for the last event: char for a
\* one-character event name, the event name otherwise.
ResolvedName ==
    IF Len(kev.name) = 1
    THEN Lower(EventChar(kev.name, kev.scan_code))
    ELSE Lower(kev.name)

NoModifierActive ==
    /\ ~modifiers.shift
    /\ ~modifiers.ctrl
    /\ ~modifiers.alt
    /\ ~modifiers.altgr
    /\ ~modifiers.win
    /\ ~caps_on

\* C12: with no modifier active a key that has a base-table entry resolves
\* to that entry with modifier byte 0, whether or not its name also has a
\* Shift-table entry.
C12_BaseEntryWithoutShift ==
    (/\ kev.event_type = "down"
     /\ NoModifierActive
     /\ ResolvedName \in DOMAIN azerty_base_map)
        => res = <<azerty_base_map[ResolvedName], 0>>

\* Whether the bit of value m (a power of two) is set in the byte b.
HasBit(b, m) == (b \div m) % 2 = 1

\* C13: with AltGr active a key that has an AltGr-table entry resolves to
\* that entry with the right_alt bit 0x40 in the modifier byte, whatever its
\* Shift-table and base-table entries; with AltGr not active no resolution
\* carries the bit of the AltGr table.
C13_AltGrFirst ==
    kev.event_type = "down" =>
        IF modifiers.altgr
        THEN ResolvedName \in DOMAIN azerty_altgr_map
                => /\ res[1] = azerty_altgr_map[ResolvedName]
                   /\ HasBit(res[2], hid_modifiers["right_alt"])
        ELSE ~HasBit(res[2], hid_modifiers["right_alt"])

\* AltGr is active and a key with entries in all three tables is resolved.
C13_Witness ==
    /\ kev.event_type = "down"
    /\ kev.name = "$"
    /\ modifiers.altgr
    /\ res = <<azerty_altgr_map["$"], 64>>

\* The digit or punctuation symbol of each numpad key of C14.
NumpadSymbol ==
    ("KEY_KP0" :> "0") @@ ("KEY_KP1" :> "1") @@ ("KEY_KP2" :> "2") @@
    ("KEY_KP3" :> "3") @@ ("KEY_KP4" :> "4") @@ ("KEY_KP5" :> "5") @@
    ("KEY_KP6" :> "6") @@ ("KEY_KP7" :> "7") @@ ("KEY_KP8" :> "8") @@
    ("KEY_KP9" :> "9") @@ ("KEY_KPDOT" :> ".")

\* The token of the navigation key of each numpad key of C14 (the 5 key
\* has none).
NumpadNavigation ==
    ("KEY_KP0" :> "[INSERT]") @@ ("KEY_KP1" :> "[END]") @@
    ("KEY_KP2" :> "[DOWN]") @@ ("KEY_KP3" :> "[PAGEDOWN]") @@
    ("KEY_KP4" :> "[LEFT]") @@ ("KEY_KP6" :> "[RIGHT]") @@
    ("KEY_KP7" :> "[HOME]") @@ ("KEY_KP8" :> "[UP]") @@
    ("KEY_KP9" :> "[PAGEUP]") @@ ("KEY_KPDOT" :> "[DELETE]")

\* C14: a numpad digit key or the numpad dot, pressed with NumLock on,
\* maps to its digit or punctuation symbol and, pressed with NumLock off,
\* to the token of its navigation key.
C14_NumpadFollowsNumLock ==
    (ev /= <<>> /\ ev[2] = 1 /\ ev[1] \in DOMAIN NumpadSymbol) =>
        IF num_lock
        THEN out = NumpadSymbol[ev[1]]
        ELSE ev[1] \in DOMAIN NumpadNavigation
                => out = NumpadNavigation[ev[1]]

\* The characters present in the base table or in the shift table.
TableCharacters == DOMAIN UNSHIFTED \cup DOMAIN SHIFTED

\* C15: a character of the base or shift table is recovered from the
\* (modifier byte, usage code) pair it encodes to: no other character of
\* the tables encodes to the same pair.
C15_EncodingRoundTrip ==
    (ret /= <<>> /\ ret[1] = "encode" /\ arg \in TableCharacters) =>
        \A c \in TableCharacters : TokenToKey(c) = ret[2] => c = arg

\* The press reports among the reports written to the device.
RECURSIVE PressReports(_)
PressReports(reports) ==
    IF reports = <<>> THEN <<>>
    ELSE IF Head(reports) = release_report THEN PressReports(Tail(reports))
    ELSE <<Head(reports)>> \o PressReports(Tail(reports))

\* C18: the press reports written to the opened device are, in the same
\* order, the encodings of the Down events received: none is reordered,
\* merged with another or dropped.
C18_ReportsInArrivalOrder ==
    hid_fd = "open" => PressReports(hid) = presses

\* C20: once a write to the HID device has failed, no further report is
\* written to the device and no further key event is processed.
C20_WriteFailureEndsSession ==
    [][write_failed => (hid' = hid /\ nevents' = nevents)]_vars

\* The canonical Unicode decomposition <<base letter, combining accent>> of
\* the accented characters of OldAlphabet.
CanonicalDecomposition ==
    ("é" :> <<"e", "U+0301">>) @@ ("ë" :> <<"e", "U+0308">>) @@
    ("É" :> <<"E", "U+0301">>)

\* The token has no direct table entry and decomposes into a base letter
\* and a combining accent that both have entries.
DecomposableOnly(t) ==
    /\ t \notin DOMAIN AZERTY_DIRECT
    /\ t \notin DOMAIN ALTGR_CHARS
    /\ t \notin DOMAIN DEAD_KEY_COMBINATIONS
    /\ t \in DOMAIN CanonicalDecomposition
    /\ CanonicalDecomposition[t][2] \in DOMAIN accent_map
    /\ Lower(CanonicalDecomposition[t][1]) \in DOMAIN old_UNSHIFTED

\* C16: a character with no direct table entry whose canonical
\* decomposition is a base letter and one combining accent, both with
\* entries, resolves to the two steps <<dead key, base letter>>, the second
\* with the usage code of the base letter resolved alone.
C16_DecomposedDeadKeySequence ==
    DecomposableOnly(old_tok) =>
        /\ Len(old_seq) = 2
        /\ old_seq[1] = accent_map[CanonicalDecomposition[old_tok][2]]
        /\ old_seq[2][2] = OldKeyData(CanonicalDecomposition[old_tok][1])[1][2]

\* The reports of consecutive taps of the steps of a sequence.
RECURSIVE TapReports(_)
TapReports(seq) ==
    IF seq = <<>> THEN <<>>
    ELSE <<make_report(Head(seq)[1], Head(seq)[2]), make_report(0, 0)>>
            \o TapReports(Tail(seq))

\* The reports written for the current token, and the number of its steps
\* whose press has been written.
WrittenForToken == SubSeq(hid, old_mark + 1, Len(hid))

StepsStarted == Len(old_seq) - Len(key_data)

\* C17: a resolved sequence is never empty and its steps are emitted as
\* consecutive taps in step order, the press of step i then a release, no
\* report combining two steps: 2N reports once the N steps are sent.
C17_SequenceIsConsecutiveTaps ==
    /\ handle_special_char(old_tok)[1] => Len(old_seq) >= 1
    /\ (old_tok /= "" /\ old_pc \in {"next", "step"}) =>
            WrittenForToken = TapReports(SubSeq(old_seq, 1, StepsStarted))
    /\ old_pc = "hold" =>
            WrittenForToken =
                TapReports(SubSeq(old_seq, 1, StepsStarted - 1))
                    \o <<make_report(old_seq[StepsStarted][1],
                                     old_seq[StepsStarted][2])>>

\* A two-step dead-key sequence has been sent whole.
C17_Witness ==
    /\ old_tok = "ë"
    /\ old_pc = "next"
    /\ WrittenForToken =
            <<make_report(2, 47), make_report(0, 0),
              make_report(0, 8), make_report(0, 0)>>

\* The (mod, usage) pairs of the tokens that have a mapping, in order.
RECURSIVE Encodable(_)
Encodable(ts) ==
    IF ts = <<>> THEN <<>>
    ELSE IF TokenToKey(Head(ts)) = NoKey THEN Encodable(Tail(ts))
    ELSE <<TokenToKey(Head(ts))>> \o Encodable(Tail(ts))

\* C19: for a token that has no mapping the replay loop writes nothing,
\* raises no error and returns to reading: once the input is consumed the
\* device holds the taps of the mapped tokens alone, those after an
\* unmapped token included.
C19_UnmappedTokenSkipped ==
    /\ [](Drained => hid = TapReports(Encodable(tokens)))
    /\ [][(/\ pc = "dispatch"
           /\ TokenToKey(tok) = NoKey
           /\ pc' \notin {"dispatch", "stopped"})
            => (pc' = "read" /\ hid' = hid /\ taps' = taps)]_vars

\* An unknown character and an unknown bracketed token were skipped and the
\* character after them was sent.
C19_Witness ==
    /\ Drained
    /\ tokens = <<"\r", "[Q]", "a">>
    /\ hid = TapReports(<<<<0, 4>>>>)

\* C21: when the HID output device could not be opened, processing stops:
\* no key event is processed or logged afterwards.
C21_OpenFailureStopsProcessing ==
    hid_fd = "none" =>
        /\ nevents = 0
        /\ kev.event_type = "none"
        /\ presses = <<>>

\* The modifier names occurring among the parts of the combination.
Named(parts) == {parts[n] : n \in 1..Len(parts)} \cap DOMAIN ghost_modifiers

RECURSIVE SumBits(_)
SumBits(names) ==
    IF names = {} THEN 0
    ELSE LET name == CHOOSE x \in names : TRUE
         IN ghost_modifiers[name] + SumBits(names \ {name})

C22_LiveShiftBit ==
    (kev.event_type = "down" /\ modifiers.shift /\ res[1] # 0)
        => HasBit(res[2], hid_modifiers["left_shift"])

\* A key of none of the cross-layout tables that is not a modifier key.
Unmapped == arg[1] \notin TableKeys

\* C23 (as stated): translate_key returns a key of none of the cross-layout
\* tables unchanged.
C23_UnmappedUnchanged ==
    (ret # <<>> /\ ret[1] = "translate_key" /\ Unmapped) => ret[2] = arg[1]

\* C23 (amended): translate_key returns a key of none of the cross-layout
\* tables unchanged when the modifiers do not hold 'altgr' or the key is a
\* modifier key, and with the prefix 'AltGr+' otherwise.
C23_UnmappedUnchangedOrPrefixed ==
    (ret # <<>> /\ ret[1] = "translate_key" /\ Unmapped) =>
        ret[2] = IF HasAltGr(arg[2]) /\ arg[1] \notin modifier_keys
                 THEN "AltGr+" \o arg[1]
                 ELSE arg[1]

\* C23: an unmapped key was translated under AltGr.
C23_Witness ==
    /\ ret = <<"translate_key", "AltGr+enter">>
    /\ arg = <<"enter", <<"altgr">>>>

\* The letters a-z in either case.
Letters == DOMAIN UPPER \cup DOMAIN LOWER

\* C30: for a letter a-z in either case and no modifiers, translate_key
\* applied twice returns the original letter, in its original case.
C30_LetterInvolution ==
    (/\ ret # <<>>
     /\ ret[1] = "translate_key_twice"
     /\ arg[1] \in Letters
     /\ arg[2] = <<>>) => ret[2] = arg[1]

\* C30: an upper-case letter the translation moves came back.
C30_Witness ==
    /\ arg = <<"Q", <<>>>>
    /\ ret = <<"translate_key_twice", "Q">>

Digits == {"0", "1", "2", "3", "4", "5", "6", "7", "8", "9"}

\* The <<scancode, modifier byte>> of the digit of the last event taken as
\* a numeric-keypad key and as a number-row key, under the current flags.
AsNumpad == process_character(modifiers, "k" \o kev.name, modifiers)

AsNumberRow == process_character(modifiers, kev.name, modifiers)

\* C24: a digit key event with scan code above 11 is resolved as the
\* numeric-keypad digit and one with scan code at most 11 as the number-row
\* digit, and the two resolutions of a digit differ.
C24_DigitClassifiedByScanCode ==
    (kev.event_type = "down" /\ kev.name \in Digits) =>
        /\ res = IF kev.scan_code > 11 THEN AsNumpad ELSE AsNumberRow
        /\ AsNumpad # AsNumberRow

\* C24: the keypad 3 was resolved with AltGr held, where the number-row 3
\* has an AltGr-table entry.
C24_Witness ==
    /\ kev = [name |-> "3", scan_code |-> 81, event_type |-> "down"]
    /\ modifiers.altgr
    /\ res = <<32, 32>>
    /\ AsNumberRow = <<32, 64>>

\* The number of characters of a sequence of tokens.
RECURSIVE TotalLen(_)
TotalLen(s) == IF s = <<>> THEN 0 ELSE Len(Head(s)) + TotalLen(Tail(s))

\* C25: follow_tokens starts reading at the end of the log: no character the
\* log held before is read or yielded, the tokens yielded are made of the
\* characters appended since, and while nothing has been appended no report
\* is written.
C25_StartsAtEndOfLog ==
    /\ start <= pos
    /\ pos <= Len(log)
    /\ TotalLen(tokens) <= pos - start
    /\ Len(log) = start => (tokens = <<>> /\ hid = <<>>)
    /\ (start = 2 /\ Input = <<"]">> /\ Drained) => tokens = <<"]">>

\* C25: the log held '[Q' at the start and ']' was appended and replayed as
\* the single character ']'.
C25_Witness ==
    /\ start = 2
    /\ Input = <<"]">>
    /\ Drained
    /\ tokens = <<"]">>
    /\ Len(hid) = 2

\* A token main of the replayer acts on: it is in the ignore set or has a
\* (modifier, usage) pair.
Understood(t) == t \in IGNORED \/ TokenToKey(t) # NoKey

\* C26: every token handle_key_press writes to the log is understood by
\* the replayer: emitted as a report or ignored, never skipped as unknown.
C26_WrittenTokenUnderstood ==
    out # "" => Understood(out)

\* C27: under every interleaving of the reading thread with stop_logging,
\* no write to the log file is attempted after stop_logging has closed it.
C27_NoWriteAfterClose == ~late_write

\* C28: a key Up event never causes a write to the HID device; it changes
\* at most the modifier flags.
C28_UpWritesNothing ==
    [][(nevents' # nevents /\ kev'.event_type = "up")
          => /\ hid' = hid
             /\ presses' = presses
             /\ write_failed' = write_failed
             /\ hid_fd' = hid_fd]_vars

\* C28: the Up of a held Shift key cleared the flag after a report had been
\* written.
C28_Witness ==
    /\ kev = [name |-> "shift", scan_code |-> 42, event_type |-> "up"]
    /\ ~modifiers.shift
    /\ hid # <<>>

\* C29: once 'exit' has been executed no later command is executed, not
\* even one of a line received in the same read.
C29_NothingAfterExit ==
    \A n \in 1..Len(executed) : executed[n] = "exit" => n = Len(executed)

====
